---- MODULE Spec2Model ----
(***************************************************************************)
(* Memoizing derivative engines of scipy.optimize._differentiable_functions *)
(* (ScalarFunction, VectorFunction) as a state machine: one action for the  *)
(* constructor and one per public accessor.  The private helpers            *)
(* (_update_x, _update_fun, ...) are operators on the engine record and are *)
(* composed in the order the accessor calls them.                           *)
(*                                                                          *)
(* Numbers are integers.  A float64 array holds every integer of the model; *)
(* a float32 array holds only the even ones, and a conversion to float32    *)
(* rounds an odd component down to the even one below it.                   *)
(***************************************************************************)
EXTENDS Integers, Sequences, FiniteSets, TLC

VARIABLES scope,   \* what the caller draws its arguments from: "core" | "full" |
                   \* "best" | "linear" | "memory" | "slsqp" | "nnls" |
                   \* "repr" | "workers"
          phase,   \* "new" | "scalar" | "vector" | "error"
          ctor,    \* the arguments the constructor was called with
          sf,      \* the ScalarFunction object
          vf,      \* the VectorFunction object
          calls,   \* accessor calls made so far
          hist,    \* the last two accessor calls, the older first
          caller,  \* what the caller keeps: the x0 it constructed with, the
                   \* points it asked fun for, the array it passed last
          lvf,     \* the LinearVectorFunction object
          lret,    \* the last call of a LinearVectorFunction accessor
          sq,      \* the run of fmin_slsqp / _minimize_slsqp
          nn,      \* the last call of nnls
          fd       \* the finite-difference computation in flight

vars ==
    <<scope, phase, ctor, sf, vf, calls, hist, caller, lvf, lret, sq, nn, fd>>

(* ------------------------------ bounds --------------------------------- *)
\* accessor calls after construction
MaxCalls == 3
\* largest number of consumed evaluations approx_derivative reports
MaxFDEvals == 1
\* returns of the solver slsqp in one run of _minimize_slsqp
MaxPasses == 2

(* ------------------------------ values --------------------------------- *)
None == <<>>
Inf == 1000000
FD_METHODS == {"2-point", "3-point", "cs"}
\* what a caller may pass as grad / jac and as hess: every strategy and one
\* unrecognized identifier in scope "full", one finite-difference method in
\* scope "core"
GradArgs(sc) ==
    {"callable", "bogus"} \cup (IF sc = "full" THEN FD_METHODS ELSE {"2-point"})
HessArgs(sc) ==
    {"callable", "HessianUpdateStrategy", "bogus"}
        \cup (IF sc = "full" THEN FD_METHODS ELSE {"2-point"})
DTypes == {"int64", "float32", "float64"}
\* points of R^2 a caller passes as x0 or x; <<3, 2>> is no float32 value
Points == {<<2, 2>>, <<4, 2>>, <<3, 2>>}
\* the x0 of scope "core"
StartPoints(sc) ==
    IF sc \in {"full", "linear", "repr"} THEN Points
    ELSE IF sc = "best" THEN Points \cup {<<1, 2>>}
    ELSE {<<4, 2>>}
\* multipliers of R^2 a caller passes as v
Multipliers == {<<0, 0>>, <<1, 2>>}

\* the representations of a Jacobian: a dense array, a sparse matrix, a
\* LinearOperator
Representations == {"dense", "sparse", "linop"}
\* a Jacobian callable that returns a dense array at every point
AlwaysDense == [x \in Points |-> "dense"]
\* what a caller may pass as sparse_jacobian
SparseJacobianArgs(sc) == IF sc = "repr" THEN {"None", "True", "False"} ELSE {"None"}

\* the callables a caller passes: bad is the set of points at which fun
\* raises, bad_der the set of points at which grad / jac raises, overwrites
\* tells whether the callables overwrite the array they receive, jrep is the
\* representation of the Jacobian that jac returns at each point
GoodUser ==
    [bad |-> {}, bad_der |-> {}, overwrites |-> FALSE, jrep |-> AlwaysDense]
\* In scope "full" fun may raise at <<2, 2>>, in scopes "faulty" and "failed"
\* fun and grad / jac may, in scope "memory" the callables may overwrite their
\* argument, in scope "repr" jac may return any representation at any point.
Users(sc) ==
    IF sc = "full"
    THEN {[GoodUser EXCEPT !.bad = b] : b \in {{}, {<<2, 2>>}}}
    ELSE IF sc \in {"faulty", "failed"}
    THEN {[GoodUser EXCEPT !.bad = b, !.bad_der = d] :
             b \in {{}, {<<2, 2>>}}, d \in {{}, {<<2, 2>>}}}
    ELSE IF sc = "memory"
    THEN {[GoodUser EXCEPT !.overwrites = o] : o \in BOOLEAN}
    ELSE IF sc = "repr"
    THEN {[GoodUser EXCEPT !.jrep = r] : r \in [Points -> Representations]}
    ELSE {GoodUser}
\* what an overwriting callable leaves in the array it received
Overwritten == <<0, 0>>

callable(a) == a = "callable"
isHessianUpdateStrategy(a) == a = "HessianUpdateStrategy"

\* xp.astype(x, dtype): conversion of every component to dtype
astype(x, dtype) ==
    IF dtype = "float32" THEN [i \in 1..Len(x) |-> x[i] - (x[i] % 2)] ELSE x
\* an array of dtype dt can hold x
Holds(dt, x) == astype(x, dt) = x
\* np.array_equal: same shape and equal components, compared as numbers
array_equal(a, b) == a = b
\* _dtype of the constructors: float64 unless x0 is already a real floating array
x_dtype_of(dt) == IF dt \in {"float32", "float64"} THEN dt ELSE "float64"

VecSub(a, b) == [i \in 1..Len(a) |-> a[i] - b[i]]
Unit(i) == [j \in 1..2 |-> IF j = i THEN 1 ELSE 0]
VecAdd(a, b) == [i \in 1..Len(a) |-> a[i] + b[i]]
\* J.T.dot(v) for a matrix J given by its rows
TDot(J, v) == [j \in 1..2 |-> J[1][j] * v[1] + J[2][j] * v[2]]

(* ---------------------- the user's callables --------------------------- *)
\* scalar objective fun(x) = x1^2 * x2 + x2^2, its gradient and its Hessian
UserFun(x) == x[1] * x[1] * x[2] + x[2] * x[2]
UserGrad(x) == <<2 * x[1] * x[2], x[1] * x[1] + 2 * x[2]>>
UserHess(x) == <<<<2 * x[2], 2 * x[1]>>, <<2 * x[1], 2>>>>
\* vector mapping F(x) = (x1^2 * x2, x2^2), its Jacobian, the Hessian of v.F
UserVFun(x) == <<x[1] * x[1] * x[2], x[2] * x[2]>>
UserJac(x) == <<<<2 * x[1] * x[2], x[1] * x[1]>>, <<0, 2 * x[2]>>>>
UserVHess(x, v) ==
    <<<<2 * x[2] * v[1], 2 * x[1] * v[1]>>, <<2 * x[1] * v[1], 2 * v[2]>>>>

(* ------------------- the finite-difference routine --------------------- *)
\* approx_derivative(fun, x, f0): forward differences from the base value f0
\* it is given (never re-evaluated here), with unit steps
approx_grad(x, f0) == [i \in 1..2 |-> UserFun(VecAdd(x, Unit(i))) - f0]
approx_jac(x, f0) ==
    [i \in 1..2 |-> [j \in 1..2 |-> UserVFun(VecAdd(x, Unit(j)))[i] - f0[i]]]
\* as_linear_operator=True: a handle that differences lazily around (x, f0)
approx_linop(x, f0) == [tag |-> "linop", val |-> <<x, f0>>]

(* -------------------- the quasi-Newton update object ------------------- *)
\* HessianUpdateStrategy: what it was told, by initialize and by update
NewHUS == [inits |-> 0, n |-> 0, updates |-> 0, last |-> None]
HUS_initialize(h, n) == [h EXCEPT !.inits = @ + 1, !.n = n]
HUS_update(h, dx, dg) == [h EXCEPT !.updates = @ + 1, !.last = <<dx, dg>>]

(* ----------------------------- array memory ---------------------------- *)
\* np.copy(x), xp_copy(x): a new array with the content of x that shares no
\* memory with the stored point
np_copy(x) == [val |-> x, shares |-> FALSE]
\* a user callable has been called on the array a: one that overwrites its
\* argument changes the stored point when a shares memory with it
UserCalled(s, a) ==
    IF s.user.overwrites /\ a.shares THEN [s EXCEPT !.x = Overwritten] ELSE s
\* an accessor returns the array of the attribute b itself
Returned(s, b) == [s EXCEPT !.out = @ \cup {b}]
\* the attribute b is bound to a new array
Rebound(s, b) == [s EXCEPT !.out = @ \ {b}]
\* what a caller that overwrites an array leaves in it
Filled(a) == [i \in 1..Len(a) |-> 7]
FilledMatrix(a) == [i \in 1..Len(a) |-> Filled(a[i])]

(* ------------------------- sequencing helpers -------------------------- *)
\* an exception ends the call: nothing after the raising statement runs
Raised(s) == s.raised # ""
Raise(s, exc) == [s EXCEPT !.raised = exc]

(* --------------------------- ScalarFunction ---------------------------- *)
\* the attributes before __init__ has assigned any of them, and the books the
\* model keeps on the collaborators: n_fun, n_grad, n_hess count the engine's
\* own calls of the user's fun, grad and hess; n_fd counts the calls of
\* approx_derivative for the gradient and fd_sum adds up the nfev it reported;
\* fd_nfev is the nfev approx_derivative reports for one derivative with this
\* engine's method and dimension; user tells how the user's callables behave;
\* x_alias tells whether the stored point shares memory with the array the
\* caller passed last; out names the attributes whose array the caller holds
\* too, because an accessor returned it
Scalar_blank ==
    [_orig_grad |-> "", _orig_hess |-> "", x |-> None, x_dtype |-> "", n |-> 0,
     f_updated |-> FALSE, g_updated |-> FALSE, H_updated |-> FALSE,
     f |-> 0, g |-> None, H |-> [tag |-> "none", val |-> None],
     _lowest_x |-> None, _lowest_f |-> Inf, _nfev |-> 0,
     wg_nfev |-> 0, wg_ngev |-> 0, wh_ngev |-> 0, wh_nhev |-> 0,
     x_prev |-> None, g_prev |-> None, hus |-> NewHUS, raised |-> "",
     fd_nfev |-> 0, n_fun |-> 0, n_grad |-> 0, n_hess |-> 0,
     n_fd |-> 0, fd_sum |-> 0,
     user |-> GoodUser, x_alias |-> FALSE,
     out |-> {}]

\* a faulty _update_fun that tracks the latest value, not the lowest
Scalar_update_fun_tracks_last(s) ==
    IF Raised(s) \/ s.f_updated THEN s
    ELSE [s EXCEPT !.n_fun = @ + 1,
                   !._nfev = @ + 1,
                   !._lowest_x = s.x,
                   !._lowest_f = UserFun(s.x),
                   !.f = UserFun(s.x),
                   !.f_updated = TRUE]

Scalar_update_fun(s) ==
    IF Raised(s) \/ s.f_updated THEN s
    ELSE IF s.x \in s.user.bad THEN Raise([s EXCEPT !.n_fun = @ + 1], "UserError")
    ELSE LET fx == UserFun(s.x)
             lower == fx < s._lowest_f
         IN  [UserCalled(s, np_copy(s.x))
                 EXCEPT !.n_fun = @ + 1,
                        !._nfev = @ + 1,
                        !._lowest_x = IF lower THEN s.x ELSE @,
                        !._lowest_f = IF lower THEN fx ELSE @,
                        !.f = fx,
                        !.f_updated = TRUE]

\* _ScalarGradWrapper.__call__(x, f0), its result stored in g
ScalarGradWrapper_call(s, x, f0) ==
    IF callable(s._orig_grad) /\ x \in s.user.bad_der
    THEN Raise([s EXCEPT !.n_grad = @ + 1], "UserError")
    ELSE IF callable(s._orig_grad)
    THEN [Rebound(UserCalled(s, np_copy(x)), "g")
             EXCEPT !.g = UserGrad(x), !.n_grad = @ + 1, !.wg_ngev = @ + 1]
    ELSE [Rebound(s, "g")
             EXCEPT !.g = approx_grad(x, f0),
                   !.n_fd = @ + 1,
                   !.fd_sum = @ + s.fd_nfev,
                   !.wg_nfev = @ + s.fd_nfev,
                   !.wg_ngev = @ + 1]

Scalar_update_grad(s) ==
    IF Raised(s) \/ s.g_updated THEN s
    ELSE LET s1 == IF s._orig_grad \in FD_METHODS THEN Scalar_update_fun(s) ELSE s
             s2 == ScalarGradWrapper_call(s1, s1.x, s1.f)
             stored(r) == IF Raised(r) THEN r ELSE [r EXCEPT !.g_updated = TRUE]
         IN  IF Raised(s1) THEN s1
             ELSE CHOOSE out \in {stored(r) : r \in {s2}} : TRUE

\* _ScalarHessWrapper.__call__(x, f0), its result stored in H
ScalarHessWrapper_call(s, x, f0) ==
    IF callable(s._orig_hess)
    THEN [Rebound(UserCalled(s, np_copy(x)), "H")
             EXCEPT !.H = [tag |-> "dense", val |-> UserHess(x)],
                    !.n_hess = @ + 1,
                    !.wh_nhev = @ + 1]
    ELSE [Rebound(s, "H")
             EXCEPT !.H = approx_linop(x, f0), !.wh_ngev = @ + s.fd_nfev]

\* a faulty _update_hess that initializes the update object before each update
Scalar_update_hess_reinitializes(s) ==
    IF Raised(s) \/ s.H_updated THEN s
    ELSE IF s._orig_hess \in FD_METHODS
    THEN LET s1 == Scalar_update_grad(s)
         IN  IF Raised(s1) THEN s1
             ELSE [ScalarHessWrapper_call(s1, s1.x, s1.g)
                      EXCEPT !.H_updated = TRUE]
    ELSE IF isHessianUpdateStrategy(s._orig_hess)
    THEN LET s1 == Scalar_update_grad(s)
         IN  IF Raised(s1) THEN s1
             ELSE IF s1.x_prev = None \/ s1.g_prev = None
             THEN Raise(s1, "TypeError")
             ELSE [s1 EXCEPT !.hus = HUS_update(HUS_initialize(@, s1.n),
                                                VecSub(s1.x, s1.x_prev),
                                                VecSub(s1.g, s1.g_prev)),
                             !.H_updated = TRUE]
    ELSE [ScalarHessWrapper_call(s, s.x, s.f) EXCEPT !.H_updated = TRUE]

Scalar_update_hess(s) ==
    IF Raised(s) \/ s.H_updated THEN s
    ELSE IF s._orig_hess \in FD_METHODS
    THEN LET s1 == Scalar_update_grad(s)
         IN  IF Raised(s1) THEN s1
             ELSE [ScalarHessWrapper_call(s1, s1.x, s1.g)
                      EXCEPT !.H_updated = TRUE]
    ELSE IF isHessianUpdateStrategy(s._orig_hess)
    THEN LET s1 == Scalar_update_grad(s)
         IN  IF Raised(s1) THEN s1
             ELSE IF s1.x_prev = None \/ s1.g_prev = None
             THEN Raise(s1, "TypeError")
             ELSE [s1 EXCEPT !.hus = HUS_update(@, VecSub(s1.x, s1.x_prev),
                                                VecSub(s1.g, s1.g_prev)),
                             !.H_updated = TRUE]
    ELSE [ScalarHessWrapper_call(s, s.x, s.f) EXCEPT !.H_updated = TRUE]

\* a faulty _update_x that moves the point and keeps the cached value valid
Scalar_update_x_keeps_f(s, x) ==
    IF isHessianUpdateStrategy(s._orig_hess)
    THEN LET s1 == Scalar_update_grad(s)
             s2 == [s1 EXCEPT !.x_prev = s1.x,
                              !.g_prev = s1.g,
                              !.x = astype(x, s1.x_dtype),
                              !.g_updated = FALSE,
                              !.H_updated = FALSE]
         IN  Scalar_update_hess(s2)
    ELSE [s EXCEPT !.x = astype(x, s.x_dtype),
                   !.g_updated = FALSE,
                   !.H_updated = FALSE]

\* a faulty _update_x that leaves gradient and Hessian to the next request
Scalar_update_x_lazy(s, x) ==
    [s EXCEPT !.x_prev = IF isHessianUpdateStrategy(s._orig_hess) THEN s.x ELSE @,
              !.g_prev = IF isHessianUpdateStrategy(s._orig_hess) THEN s.g ELSE @,
              !.x = astype(x, s.x_dtype),
              !.f_updated = FALSE,
              !.g_updated = FALSE,
              !.H_updated = FALSE]

\* a faulty _update_x that moves the point and clears the flags before it
\* brings the gradient up to date and takes the snapshot
Scalar_update_x_moves_first(s, x) ==
    IF isHessianUpdateStrategy(s._orig_hess)
    THEN LET s0 == [s EXCEPT !.x = astype(x, s.x_dtype),
                             !.x_alias = FALSE,
                             !.f_updated = FALSE,
                             !.g_updated = FALSE,
                             !.H_updated = FALSE]
             s1 == Scalar_update_grad(s0)
             s2 == [s1 EXCEPT !.x_prev = s.x,
                              !.g_prev = s.g,
                              !.H_updated = FALSE]
         IN  IF Raised(s1) THEN s1 ELSE Scalar_update_hess(s2)
    ELSE [s EXCEPT !.x = astype(x, s.x_dtype),
                   !.x_alias = FALSE,
                   !.f_updated = FALSE,
                   !.g_updated = FALSE,
                   !.H_updated = FALSE]

Scalar_update_x(s, x) ==
    IF isHessianUpdateStrategy(s._orig_hess)
    THEN LET s1 == Scalar_update_grad(s)
             s2 == [s1 EXCEPT !.x_prev = s1.x,
                              !.g_prev = s1.g,
                              !.x = astype(x, s1.x_dtype),
                              !.x_alias = FALSE,
                              !.f_updated = FALSE,
                              !.g_updated = FALSE,
                              !.H_updated = FALSE]
         IN  IF Raised(s1) THEN s1 ELSE Scalar_update_hess(s2)
    ELSE [s EXCEPT !.x = astype(x, s.x_dtype),
                   !.x_alias = FALSE,
                   !.f_updated = FALSE,
                   !.g_updated = FALSE,
                   !.H_updated = FALSE]

\* a faulty nfev that leaves out what the finite-difference routine consumed
Scalar_nfev_primary(s) == s._nfev

\* a faulty ngev that adds what the finite-difference Hessian consumed
Scalar_ngev_with_hess(s) == s.wg_ngev + s.wh_ngev

\* a faulty nhev that adds what the finite-difference Hessian consumed
Scalar_nhev_with_grads(s) == s.wh_nhev + s.wh_ngev

\* the properties nfev, ngev, nhev
Scalar_nfev(s) == s._nfev + s.wg_nfev
Scalar_ngev(s) == s.wg_ngev
Scalar_nhev(s) == s.wh_nhev

\* the accessors: the object after the call (the value returned is its f, g, H)
Scalar_moved(s, x) == IF ~array_equal(x, s.x) THEN Scalar_update_x(s, x) ELSE s
Scalar_fun(s, x) == Scalar_update_fun(Scalar_moved(s, x))
\* a faulty grad that evaluates the function as well
Scalar_grad_evaluates_fun(s, x) ==
    LET s1 == Scalar_update_grad(Scalar_update_fun(Scalar_moved(s, x)))
    IN  IF Raised(s1) THEN s1 ELSE Returned(s1, "g")
Scalar_grad(s, x) ==
    LET s1 == Scalar_update_grad(Scalar_moved(s, x))
    IN  IF Raised(s1) THEN s1 ELSE Returned(s1, "g")
Scalar_hess(s, x) ==
    LET s1 == Scalar_update_hess(Scalar_moved(s, x))
    IN  IF Raised(s1) \/ s1.H.tag # "dense" THEN s1 ELSE Returned(s1, "H")
Scalar_fun_and_grad(s, x) ==
    LET s1 == Scalar_update_grad(Scalar_update_fun(Scalar_moved(s, x)))
    IN  IF Raised(s1) THEN s1 ELSE Returned(s1, "g")

\* faulty checks that let two finite-difference levels through
Scalar_check_args_two(grad, hess) ==
    IF ~callable(grad) /\ grad \notin FD_METHODS
    THEN "ValueError"
    ELSE IF ~(callable(hess) \/ hess \in FD_METHODS
              \/ isHessianUpdateStrategy(hess))
    THEN "ValueError"
    ELSE ""

\* the three checks __init__ opens with: the exception raised, "" for none
Scalar_check_args(grad, hess) ==
    IF ~callable(grad) /\ grad \notin FD_METHODS
    THEN "ValueError"
    ELSE IF ~(callable(hess) \/ hess \in FD_METHODS
              \/ isHessianUpdateStrategy(hess))
    THEN "ValueError"
    ELSE IF grad \in FD_METHODS /\ hess \in FD_METHODS
    THEN "ValueError"
    ELSE ""

\* ScalarFunction.__init__(fun, x0, args, grad, hess): x0 is an array of dtype dt
Scalar_init(x0, dt, grad, hess, k, user) ==
    IF Scalar_check_args(grad, hess) # ""
    THEN Raise(Scalar_blank, Scalar_check_args(grad, hess))
    ELSE LET s0 == [Scalar_blank EXCEPT !._orig_grad = grad,
                                    !._orig_hess = hess,
                                    !.x = astype(x0, x_dtype_of(dt)),
                                    !.x_dtype = x_dtype_of(dt),
                                    !.n = Len(x0),
                                    !.fd_nfev = k,
                                    !.user = user]
             s1 == Scalar_update_grad(Scalar_update_fun(s0))
         IN  IF Raised(s1) THEN s1
             ELSE IF isHessianUpdateStrategy(hess)
             THEN [s1 EXCEPT !.hus = HUS_initialize(@, s1.n),
                             !.H = [tag |-> "hus", val |-> None],
                             !.H_updated = TRUE,
                             !.x_prev = None,
                             !.g_prev = None]
             ELSE IF callable(hess)
             THEN [UserCalled(s1, np_copy(x0))
                      EXCEPT !.H = [tag |-> "dense", val |-> UserHess(x0)],
                             !.n_hess = @ + 1,
                             !.wh_nhev = @ + 1,
                             !.H_updated = TRUE]
             ELSE LET s2 == Scalar_update_grad(s1)
                  IN  [ScalarHessWrapper_call(s2, s2.x, s2.g)
                          EXCEPT !.H_updated = TRUE]

(* --------------------------- VectorFunction ---------------------------- *)
\* v_alias: self.v is the array object the caller passed (_update_v stores the
\* reference); n_jac counts the engine's calls of the user's jac; J_repr is
\* the representation of J, J is its content; repr0 is the representation J
\* had at the end of __init__
Vector_blank ==
    [_orig_jac |-> "", _orig_hess |-> "", x |-> None, x_dtype |-> "", n |-> 0,
     m |-> 0, _nfev |-> 0, _njev |-> 0, _nhev |-> 0,
     f_updated |-> FALSE, J_updated |-> FALSE, H_updated |-> FALSE,
     f |-> None, J |-> None, H |-> [tag |-> "none", val |-> None],
     v |-> None, v_alias |-> FALSE,
     sparse_jacobian |-> FALSE, J_repr |-> "none", repr0 |-> "none",
     fw_nfev |-> 0, jw_njev |-> 0, jw_nfev |-> 0, hw_nhev |-> 0, hw_njev |-> 0,
     x_prev |-> None, J_prev |-> None, hus |-> NewHUS, raised |-> "",
     fd_nfev |-> 0, n_fun |-> 0, n_jac |-> 0, n_hess |-> 0,
     n_fd |-> 0, fd_sum |-> 0,
     user |-> GoodUser, x_alias |-> FALSE]

Vector_update_v(s, v) ==
    IF ~array_equal(v, s.v)
    THEN [s EXCEPT !.v = v, !.v_alias = TRUE, !.H_updated = FALSE]
    ELSE s

Vector_update_fun(s) ==
    IF Raised(s) \/ s.f_updated THEN s
    ELSE IF s.x \in s.user.bad
    THEN Raise([s EXCEPT !.n_fun = @ + 1, !.fw_nfev = @ + 1], "UserError")
    ELSE [UserCalled(s, np_copy(s.x))
             EXCEPT !.f = UserVFun(s.x),
                    !.n_fun = @ + 1,
                    !.fw_nfev = @ + 1,
                    !._nfev = @ + 1,
                    !.f_updated = TRUE]

\* the representation the user's jac returns at x
UserJacRepr(s, x) ==
    IF x \in DOMAIN s.user.jrep THEN s.user.jrep[x] ELSE "dense"

\* sps.csr_array(J): a LinearOperator cannot be made a sparse matrix
csr_array(rep) == IF rep = "linop" THEN "TypeError" ELSE "sparse"

\* the normalization _VectorJacWrapper.__call__ ends with: the representation
\* returned for a Jacobian of representation rep, "TypeError" if none is
VectorJacWrapper_normalize(sparse_jacobian, rep) ==
    IF sparse_jacobian THEN csr_array(rep)
    ELSE IF rep = "sparse" THEN "dense"
    ELSE IF rep = "linop" THEN "linop"
    ELSE "dense"

\* _VectorJacWrapper.__call__(x, f0), its result stored in J
VectorJacWrapper_call(s, x, f0) ==
    LET rep == IF callable(s._orig_jac) THEN UserJacRepr(s, x) ELSE "dense"
        s1 == IF callable(s._orig_jac)
              THEN [UserCalled(s, np_copy(x))
                       EXCEPT !.n_jac = @ + 1, !.jw_njev = @ + 1]
              ELSE [s EXCEPT !.n_fd = @ + 1,
                             !.fd_sum = @ + s.fd_nfev,
                             !.jw_nfev = @ + s.fd_nfev]
        out == VectorJacWrapper_normalize(s.sparse_jacobian, rep)
    IN  IF callable(s._orig_jac) /\ x \in s.user.bad_der
        THEN Raise([s EXCEPT !.n_jac = @ + 1], "UserError")
        ELSE IF out = "TypeError" THEN Raise(s1, "TypeError")
        ELSE [s1 EXCEPT !.J = IF callable(s._orig_jac) THEN UserJac(x)
                              ELSE approx_jac(x, f0),
                        !.J_repr = out]

Vector_update_jac(s) ==
    IF Raised(s) \/ s.J_updated THEN s
    ELSE LET s1 == IF s._orig_jac \in FD_METHODS
                   THEN Vector_update_fun(s)
                   ELSE [s EXCEPT !._njev = @ + 1]
             s2 == VectorJacWrapper_call(s1, s1.x, s1.f)
         IN  IF Raised(s1) THEN s1
             ELSE IF Raised(s2) THEN s2
             ELSE [s2 EXCEPT !.J_updated = TRUE]

\* _VectorHessWrapper.__call__(x, v, J0), its result stored in H
VectorHessWrapper_call(s, x, v, J0) ==
    IF callable(s._orig_hess)
    THEN [UserCalled(s, np_copy(x))
             EXCEPT !.hw_nhev = @ + 1,
                    !.n_hess = @ + 1,
                    !.H = [tag |-> "dense", val |-> UserVHess(x, v)]]
    ELSE LET s1 == IF J0 = None
                   THEN [VectorJacWrapper_call(s, x, None)
                            EXCEPT !.hw_njev = @ + 1]
                   ELSE s
             Jb == IF J0 = None THEN s1.J ELSE J0
         IN  [s1 EXCEPT !.H = approx_linop(x, <<TDot(Jb, v), v>>)]

\* a faulty _update_hess whose quasi-Newton branch does not look for a
\* previous point: the subtraction from None raises
Vector_update_hess_unguarded(s) ==
    IF Raised(s) \/ s.H_updated THEN s
    ELSE IF callable(s._orig_hess)
    THEN [VectorHessWrapper_call(s, s.x, s.v, None)
             EXCEPT !._nhev = @ + 1, !.H_updated = TRUE]
    ELSE IF s._orig_hess \in FD_METHODS
    THEN LET s1 == Vector_update_jac(s)
         IN  IF Raised(s1) THEN s1
             ELSE [VectorHessWrapper_call(s1, s1.x, s1.v, s1.J)
                      EXCEPT !.H_updated = TRUE]
    ELSE LET s1 == Vector_update_jac(s)
         IN  IF Raised(s1) THEN s1
             ELSE IF s1.x_prev = None \/ s1.J_prev = None
             THEN Raise(s1, "TypeError")
             ELSE [s1 EXCEPT !.hus = HUS_update(@, VecSub(s1.x, s1.x_prev),
                                       VecSub(TDot(s1.J, s1.v),
                                              TDot(s1.J_prev, s1.v))),
                             !.H_updated = TRUE]

Vector_update_hess(s) ==
    IF Raised(s) \/ s.H_updated THEN s
    ELSE IF callable(s._orig_hess)
    THEN [VectorHessWrapper_call(s, s.x, s.v, None)
             EXCEPT !._nhev = @ + 1, !.H_updated = TRUE]
    ELSE IF s._orig_hess \in FD_METHODS
    THEN LET s1 == Vector_update_jac(s)
         IN  IF Raised(s1) THEN s1
             ELSE [VectorHessWrapper_call(s1, s1.x, s1.v, s1.J)
                      EXCEPT !.H_updated = TRUE]
    ELSE LET s1 == Vector_update_jac(s)
         IN  IF Raised(s1) THEN s1
             ELSE IF s1.x_prev # None /\ s1.J_prev # None
             THEN [s1 EXCEPT !.hus = HUS_update(@, VecSub(s1.x, s1.x_prev),
                                       VecSub(TDot(s1.J, s1.v),
                                              TDot(s1.J_prev, s1.v))),
                             !.H_updated = TRUE]
             ELSE [s1 EXCEPT !.H_updated = TRUE]

\* a faulty _update_x that stores the caller's array itself
Vector_update_x_by_reference(s, x) ==
    IF array_equal(x, s.x) THEN s
    ELSE IF isHessianUpdateStrategy(s._orig_hess)
    THEN LET s1 == Vector_update_jac(s)
             s2 == [s1 EXCEPT !.x_prev = s1.x,
                              !.J_prev = s1.J,
                              !.x = x,
                              !.x_alias = TRUE,
                              !.f_updated = FALSE,
                              !.J_updated = FALSE,
                              !.H_updated = FALSE]
         IN  IF Raised(s1) THEN s1 ELSE Vector_update_hess(s2)
    ELSE [s EXCEPT !.x = x,
                   !.x_alias = TRUE,
                   !.f_updated = FALSE,
                   !.J_updated = FALSE,
                   !.H_updated = FALSE]

Vector_update_x(s, x) ==
    IF array_equal(x, s.x) THEN s
    ELSE IF isHessianUpdateStrategy(s._orig_hess)
    THEN LET s1 == Vector_update_jac(s)
             s2 == [s1 EXCEPT !.x_prev = s1.x,
                              !.J_prev = s1.J,
                              !.x = astype(x, s1.x_dtype),
                              !.x_alias = FALSE,
                              !.f_updated = FALSE,
                              !.J_updated = FALSE,
                              !.H_updated = FALSE]
         IN  IF Raised(s1) THEN s1 ELSE Vector_update_hess(s2)
    ELSE [s EXCEPT !.x = astype(x, s.x_dtype),
                   !.x_alias = FALSE,
                   !.f_updated = FALSE,
                   !.J_updated = FALSE,
                   !.H_updated = FALSE]

\* the properties nfev, njev, nhev
Vector_nfev(s) == s._nfev + s.jw_nfev
Vector_njev(s) == s._njev + s.hw_njev
Vector_nhev(s) == s._nhev

\* a faulty hess that moves the point before it stores the multiplier
Vector_hess_x_first(s, x, v) ==
    Vector_update_hess(Vector_update_v(Vector_update_x(s, x), v))

\* the accessors: the object after the call
Vector_fun(s, x) == Vector_update_fun(Vector_update_x(s, x))
Vector_jac(s, x) == Vector_update_jac(Vector_update_x(s, x))
Vector_hess(s, x, v) ==
    Vector_update_hess(Vector_update_x(Vector_update_v(s, v), x))

\* faulty checks that never look at what hess is
Vector_check_args_no_hess(jac, hess) ==
    IF ~callable(jac) /\ jac \notin FD_METHODS
    THEN "ValueError"
    ELSE IF jac \in FD_METHODS /\ hess \in FD_METHODS
    THEN "ValueError"
    ELSE ""

\* the three checks __init__ opens with: the exception raised, "" for none
Vector_check_args(jac, hess) ==
    IF ~callable(jac) /\ jac \notin FD_METHODS
    THEN "ValueError"
    ELSE IF ~(callable(hess) \/ hess \in FD_METHODS
              \/ isHessianUpdateStrategy(hess))
    THEN "ValueError"
    ELSE IF jac \in FD_METHODS /\ hess \in FD_METHODS
    THEN "ValueError"
    ELSE ""

\* __init__ resolves sparse_jacobian and normalizes the initial Jacobian, of
\* representation rep: the flag and the representation of J, "TypeError" if
\* the conversion raises
Vector_resolve_sparse(sparse_jacobian, rep) ==
    IF sparse_jacobian = "True" \/ (sparse_jacobian = "None" /\ rep = "sparse")
    THEN [flag |-> TRUE, rep |-> csr_array(rep)]
    ELSE IF rep = "sparse" THEN [flag |-> FALSE, rep |-> "dense"]
    ELSE IF rep = "linop" THEN [flag |-> FALSE, rep |-> "linop"]
    ELSE [flag |-> FALSE, rep |-> "dense"]

\* VectorFunction.__init__(fun, x0, jac, hess, sparse_jacobian): x0 is an
\* array of dtype dt
Vector_init(x0, dt, jac, hess, k, user, sparse_jacobian) ==
    IF Vector_check_args(jac, hess) # ""
    THEN Raise(Vector_blank, Vector_check_args(jac, hess))
    ELSE LET s0 == [Vector_blank EXCEPT !._orig_jac = jac,
                                        !._orig_hess = hess,
                                        !.x = astype(x0, x_dtype_of(dt)),
                                        !.x_dtype = x_dtype_of(dt),
                                        !.n = Len(x0),
                                        !.fd_nfev = k,
                                        !.user = user]
             s1 == Vector_update_fun(s0)
             s2 == [s1 EXCEPT !.v = [i \in 1..Len(s1.f) |-> 0],
                              !.m = Len(s1.f)]
             s3a == IF callable(jac)
                   THEN [UserCalled(s2, np_copy(s2.x))
                            EXCEPT !.J = UserJac(s2.x),
                                   !.n_jac = @ + 1,
                                   !.J_updated = TRUE,
                                   !._njev = @ + 1]
                   ELSE [s2 EXCEPT !.J = approx_jac(s2.x, s2.f),
                                   !.n_fd = @ + 1,
                                   !.fd_sum = @ + s2.fd_nfev,
                                   !.J_updated = TRUE,
                                   !._nfev = @ + s2.fd_nfev]
             res == Vector_resolve_sparse(
                        sparse_jacobian,
                        IF callable(jac) THEN UserJacRepr(s2, s2.x) ELSE "dense")
             s3 == [s3a EXCEPT !.sparse_jacobian = res.flag,
                               !.J_repr = res.rep,
                               !.repr0 = res.rep]
         IN  IF Raised(s1) THEN s1
             ELSE IF callable(jac) /\ s2.x \in user.bad_der
             THEN Raise([s2 EXCEPT !.n_jac = @ + 1], "UserError")
             ELSE IF res.rep = "TypeError" THEN Raise(s3a, "TypeError")
             ELSE IF callable(hess)
             THEN [VectorHessWrapper_call(s3, s3.x, s3.v, s3.J)
                      EXCEPT !.H_updated = TRUE, !._nhev = @ + 1]
             ELSE IF hess \in FD_METHODS
             THEN [VectorHessWrapper_call(s3, s3.x, s3.v, s3.J)
                      EXCEPT !.H_updated = TRUE]
             ELSE [s3 EXCEPT !.hus = HUS_initialize(@, s3.n),
                             !.H = [tag |-> "hus", val |-> None],
                             !.H_updated = TRUE,
                             !.x_prev = None,
                             !.J_prev = None]

(* ------------------------ LinearVectorFunction ------------------------- *)
\* the matrices A a caller builds a LinearVectorFunction from, by rows; the
\* first is the one of IdentityVectorFunction
Matrices == {<<<<1, 0>>, <<0, 1>>>>, <<<<1, 2>>, <<3, 4>>>>}
\* J.dot(x)
MatVec(J, x) == [i \in 1..Len(J) |-> J[i][1] * x[1] + J[i][2] * x[2]]
\* sps.csr_array((n, n)): the n x n matrix without entries
ZeroMatrix(n) == [i \in 1..n |-> [j \in 1..n |-> 0]]

\* the attributes before __init__ has assigned any of them; out names the
\* attributes, f and J, whose array the caller holds too
Linear_blank ==
    [A |-> None, J |-> None, m |-> 0, n |-> 0, x |-> None, x_dtype |-> "",
     x_alias |-> FALSE, f |-> None, f_updated |-> FALSE, v |-> None,
     H |-> None, out |-> {}]

\* LinearVectorFunction.__init__(A, x0, sparse_jacobian): x0 of dtype dt
Linear_init(A, x0, dt) ==
    LET x == astype(x0, x_dtype_of(dt))
    IN  [Linear_blank EXCEPT !.A = A,
                             !.J = A,
                             !.m = Len(A),
                             !.n = Len(A[1]),
                             !.x = x,
                             !.x_dtype = x_dtype_of(dt),
                             !.f = MatVec(A, x),
                             !.f_updated = TRUE,
                             !.v = [i \in 1..Len(A) |-> 0],
                             !.H = ZeroMatrix(Len(A[1]))]

Linear_update_x(s, x) ==
    IF ~array_equal(x, s.x)
    THEN [s EXCEPT !.x = astype(x, s.x_dtype),
                   !.x_alias = FALSE,
                   !.f_updated = FALSE]
    ELSE s

\* the accessors: the object after the call; fun returns its f, jac its J,
\* hess its H
Linear_fun(s, x) ==
    LET s1 == Linear_update_x(s, x)
        s2 == IF ~s1.f_updated
              THEN [Rebound(s1, "f") EXCEPT !.f = MatVec(s1.J, x),
                                            !.f_updated = TRUE]
              ELSE s1
    IN  Returned(s2, "f")
Linear_jac(s, x) == Returned(Linear_update_x(s, x), "J")
Linear_hess(s, x, v) == [Linear_update_x(s, x) EXCEPT !.v = v]

(* -------------------------------- slsqp -------------------------------- *)
\* what a caller of fmin_slsqp passes: x0; the bounds, none or the box
\* [(2, 4), (2, 4)]; the lists eqcons and ieqcons of constraint functions; the
\* vector-valued f_eqcons and f_ieqcons, "" for None; fprime, "" for None
SlsqpStarts == {<<4, 2>>, <<6, 2>>}
SlsqpUnbounded == [given |-> FALSE, lb |-> <<0, 0>>, ub |-> <<0, 0>>]
SlsqpBounds ==
    {SlsqpUnbounded, [given |-> TRUE, lb |-> <<2, 2>>, ub |-> <<4, 4>>]}
EqConsLists == {<<>>, <<"eqcons[0]">>}
IeqConsLists == {<<>>, <<"ieqcons[0]">>}
FEqCons == {"", "f_eqcons"}
FIeqCons == {"", "f_ieqcons"}
FPrimes == {"", "callable"}

\* what a caller of _minimize_slsqp may pass as one constraint: an object of
\* class cls, a dictionary, a list or an array; the value under the key
\* 'type' of a dictionary, an object of class cls, a str, an int or a bytes,
\* NoKey when the dictionary has no such key; the value under 'fun', "" when
\* the dictionary has no such key
NoKey == [cls |-> "", val |-> ""]
Str(val) == [cls |-> "str", val |-> val]
ConstraintTypes ==
    {NoKey, Str("eq"), Str("EQ"), Str("ineq"), Str("neq"),
     [cls |-> "int", val |-> "1"], [cls |-> "bytes", val |-> "EQ"]}
Dict(type, fun) == [cls |-> "dict", type |-> type, fun |-> fun]
NotADict(cls) == [cls |-> cls, type |-> NoKey, fun |-> ""]
ConstraintObjects ==
    {Dict(type, fun) : type \in ConstraintTypes, fun \in {"", "con_fun"}}
        \cup {NotADict("list"), NotADict("ndarray")}
\* the constraints argument: one dictionary, or a tuple of up to two objects
ConstraintArgs ==
    {c \in ConstraintObjects : c.cls = "dict"}
        \cup {[cls |-> "tuple", items |-> <<c>>] : c \in ConstraintObjects}
        \cup {[cls |-> "tuple", items |-> <<c, d>>] :
                 c \in {Dict(Str("eq"), "con_fun"), Dict(Str("neq"), ""),
                        Dict(NoKey, "")},
                 d \in ConstraintObjects}

\* what the compiled solver slsqp may leave in x and in state_dict['mode']
\* when it returns: <<6, 2>> is beyond the upper bounds of the box
SolverPoints == {<<2, 2>>, <<4, 2>>, <<6, 2>>}
EvalModes == {1, -1}
ExitModes == {0, 9}

\* new_bounds = (-inf, inf) without bounds, else old_bound_to_new(bounds)
InBounds(x, bounds) ==
    bounds.given =>
        \A i \in 1..Len(x) : bounds.lb[i] <= x[i] /\ x[i] <= bounds.ub[i]
\* np.clip(x, new_bounds[0], new_bounds[1])
np_clip(x, bounds) ==
    IF ~bounds.given THEN x
    ELSE [i \in 1..Len(x) |->
             IF x[i] < bounds.lb[i] THEN bounds.lb[i]
             ELSE IF x[i] > bounds.ub[i] THEN bounds.ub[i]
             ELSE x[i]]
\* the dtype of that array: the float64 of the arrays of bounds when bounds
\* are given
np_clip_dtype(dt, bounds) == IF bounds.given THEN "float64" ELSE dt
\* _check_clip_x(x, bounds): x, clipped when it is outside the bounds
check_clip_x(x, bounds) == IF InBounds(x, bounds) THEN x ELSE np_clip(x, bounds)

\* fmin_slsqp: the constraints as a tuple of dictionaries
Slsqp_build_cons(eqcons, ieqcons, f_eqcons, f_ieqcons) ==
    [i \in 1..Len(eqcons) |-> Dict(Str("eq"), eqcons[i])]
        \o [i \in 1..Len(ieqcons) |-> Dict(Str("ineq"), ieqcons[i])]
        \o (IF f_eqcons # "" THEN <<Dict(Str("eq"), f_eqcons)>> ELSE <<>>)
        \o (IF f_ieqcons # "" THEN <<Dict(Str("ineq"), f_ieqcons)>> ELSE <<>>)

\* isinstance(constraints, dict): one dictionary stands for a tuple of one
Slsqp_as_tuple(constraints) ==
    IF constraints.cls = "dict" THEN <<constraints>> ELSE constraints.items

\* con['type']: the value, or the exception the subscription raises
py_getitem_type(con) ==
    IF con.cls = "dict"
    THEN (IF con.type = NoKey THEN [exc |-> "KeyError", value |-> NoKey]
          ELSE [exc |-> "", value |-> con.type])
    ELSE IF con.cls = "ndarray" THEN [exc |-> "IndexError", value |-> NoKey]
    ELSE [exc |-> "TypeError", value |-> NoKey]
\* str.lower and bytes.lower of the values above
str_lower(val) == IF val = "EQ" THEN "eq" ELSE val
\* value.lower(): the lowered value, or the AttributeError of an object
\* that has no such method
py_lower(value) ==
    IF value.cls \in {"str", "bytes"}
    THEN [exc |-> "", value |-> [value EXCEPT !.val = str_lower(@)]]
    ELSE [exc |-> "AttributeError", value |-> NoKey]
\* ctype = con['type'].lower(), with the handlers of the try statement
Slsqp_ctype(con) ==
    LET got == py_getitem_type(con)
        low == py_lower(got.value)
    IN  IF got.exc = "KeyError" THEN [exc |-> "KeyError", value |-> NoKey]
        ELSE IF got.exc = "TypeError" THEN [exc |-> "TypeError", value |-> NoKey]
        ELSE IF got.exc # "" THEN got
        ELSE IF low.exc = "AttributeError"
        THEN [exc |-> "TypeError", value |-> NoKey]
        ELSE low
\* the checks of one constraint: the exception raised, "" for none
Slsqp_check(con) ==
    LET ctype == Slsqp_ctype(con)
    IN  IF ctype.exc # "" THEN ctype.exc
        ELSE IF ctype.value \notin {Str("eq"), Str("ineq")} THEN "ValueError"
        ELSE IF con.fun = "" THEN "ValueError"
        ELSE ""
\* the loop over the constraints stops at the first that fails a check
RECURSIVE Slsqp_check_all(_)
Slsqp_check_all(constraints) ==
    IF constraints = <<>> THEN ""
    ELSE IF Slsqp_check(Head(constraints)) # ""
    THEN Slsqp_check(Head(constraints))
    ELSE Slsqp_check_all(Tail(constraints))

\* _minimize_slsqp: the functions of the constraints of one type, in order
RECURSIVE FunsOfType(_, _)
FunsOfType(constraints, ctype) ==
    IF constraints = <<>> THEN <<>>
    ELSE (IF Slsqp_ctype(Head(constraints)).value = Str(ctype)
          THEN <<Head(constraints).fun>>
          ELSE <<>>) \o FunsOfType(Tail(constraints), ctype)
\* _minimize_slsqp: the constraints triaged per type
Slsqp_triage(constraints) ==
    [eq |-> FunsOfType(constraints, "eq"),
     ineq |-> FunsOfType(constraints, "ineq")]

\* _prepare_scalar_function: the grad argument of the ScalarFunction
prepare_grad(jac) ==
    IF callable(jac) \/ jac \in FD_METHODS THEN jac ELSE "2-point"

\* a faulty start that does not clip the initial guess
Slsqp_start_unclipped(x0, dt, bounds) == astype(x0, x_dtype_of(dt))

\* _minimize_slsqp: the initial guess as a floating array, clipped to bounds
Slsqp_start(x0, dt, bounds) == np_clip(astype(x0, x_dtype_of(dt)), bounds)

\* nfev, ngev and the calls of the user's callables and of the
\* finite-difference routine that a ScalarFunction has made
Counters(s) ==
    [nfev |-> Scalar_nfev(s), ngev |-> Scalar_ngev(s), n_fun |-> s.n_fun,
     n_grad |-> s.n_grad, n_fd |-> s.n_fd]

\* no run yet. args are the constraint arguments of fmin_slsqp, cons the
\* triaged constraints the solver works on, sent the points passed to sf.fun
\* and sf.grad, at_ctor and at_loop the counters of sf right after its
\* construction and at the entry of the loop, passes the returns of the
\* solver, ret_iter the iteration counter at the return before the last,
\* cb_calls the callback calls, cb_pass those made after the last return,
\* cb_last the argument of the last of them, constraints the constraints
\* _minimize_slsqp was given, raised the exception it ended with
Slsqp_blank ==
    [phase |-> "new", constraints |-> <<>>, raised |-> "",
     args |-> [eqcons |-> <<>>, ieqcons |-> <<>>, f_eqcons |-> "",
               f_ieqcons |-> ""],
     cons |-> [eq |-> <<>>, ineq |-> <<>>],
     bounds |-> [given |-> FALSE, lb |-> <<0, 0>>, ub |-> <<0, 0>>],
     callback |-> FALSE, x |-> None, sf |-> Scalar_blank, fx |-> 0,
     g |-> None, mode |-> 0, iter |-> 0, iter_prev |-> 0, passes |-> 0,
     ret_iter |-> 0, cb_calls |-> 0, cb_pass |-> 0, cb_last |-> np_copy(None),
     sent |-> {}, at_ctor |-> Counters(Scalar_blank),
     at_loop |-> Counters(Scalar_blank)]

\* _minimize_slsqp: the initial call of grad on the ScalarFunction s1, which
\* s0 was after its construction, and the state at the entry of the loop
Slsqp_initial_grad(q, x1, s0, s1) ==
    CHOOSE out \in {[q EXCEPT !.phase = "loop",
                              !.sf = s2,
                              !.fx = s1.f,
                              !.g = s2.g,
                              !.sent = {x1},
                              !.at_ctor = Counters(s0),
                              !.at_loop = Counters(s2)] :
                       s2 \in {Scalar_grad(s1, x1)}} : TRUE
\* _minimize_slsqp: the initial call of fun on the ScalarFunction s0
Slsqp_initial_fun(q, x1, s0) ==
    CHOOSE out \in {Slsqp_initial_grad(q, x1, s0, s1) :
                       s1 \in {Scalar_fun(s0, x1)}} : TRUE

\* _minimize_slsqp up to the entry of the loop, for an x0 of dtype dt and an
\* objective whose finite-difference gradient takes k evaluations: the
\* initial guess, the checks of the constraints, the ScalarFunction, the
\* initial calls of fun and grad
Slsqp_minimize(x0, dt, bounds, constraints, fprime, callback, k) ==
    LET cons == Slsqp_as_tuple(constraints)
        exc == Slsqp_check_all(cons)
        x == Slsqp_start(x0, dt, bounds)
        q == [Slsqp_blank EXCEPT !.constraints = cons,
                                 !.bounds = bounds,
                                 !.callback = callback]
    IN  IF exc # ""
        THEN [q EXCEPT !.phase = "error", !.raised = exc]
        ELSE CHOOSE out \in
                 {Slsqp_initial_fun([q EXCEPT !.cons = Slsqp_triage(cons),
                                              !.x = x],
                                    check_clip_x(x, bounds), s0) :
                    s0 \in {Scalar_init(x, np_clip_dtype(x_dtype_of(dt), bounds),
                                        prepare_grad(fprime), "callable", k,
                                        GoodUser)}} : TRUE

\* fmin_slsqp: it builds the constraints and calls _minimize_slsqp
Slsqp_enter(x0, dt, bounds, eqcons, ieqcons, f_eqcons, f_ieqcons, fprime, callback, k) ==
    LET constraints == Slsqp_build_cons(eqcons, ieqcons, f_eqcons, f_ieqcons)
        run == Slsqp_minimize(x0, dt, bounds,
                              [cls |-> "tuple", items |-> constraints],
                              fprime, callback, k)
    IN  [run EXCEPT !.args = [eqcons |-> eqcons, ieqcons |-> ieqcons,
                              f_eqcons |-> f_eqcons, f_ieqcons |-> f_ieqcons]]

\* a faulty test that calls the callback although the counter stood still
Slsqp_callback_always(iter, iter_prev) == iter >= iter_prev

\* state_dict['iter'] > iter_prev
Slsqp_callback_due(iter, iter_prev) == iter > iter_prev

\* one pass of the loop of _minimize_slsqp: the solver returns with mode, x
\* and iter in its state; the objective or the gradient is evaluated, the
\* callback called, and the loop left unless mode is 1 or -1
Slsqp_pass(q, mode, x, iter) ==
    LET s1 == IF mode = 1 THEN Scalar_fun(q.sf, x) ELSE q.sf
        s2 == IF mode = -1 THEN Scalar_grad(s1, x) ELSE s1
        call == Slsqp_callback_due(iter, q.iter_prev) /\ q.callback
        done == mode \notin EvalModes
    IN  [q EXCEPT !.phase = IF done THEN "done" ELSE "loop",
                  !.x = x,
                  !.mode = mode,
                  !.ret_iter = q.iter,
                  !.iter = iter,
                  !.sf = s2,
                  !.fx = IF mode = 1 THEN s1.f ELSE @,
                  !.g = IF mode = -1 THEN s2.g ELSE @,
                  !.sent = IF mode \in EvalModes THEN @ \cup {x} ELSE @,
                  !.cb_calls = IF call THEN @ + 1 ELSE @,
                  !.cb_pass = IF call THEN 1 ELSE 0,
                  !.cb_last = IF call THEN np_copy(x) ELSE @,
                  !.iter_prev = IF done THEN @ ELSE iter,
                  !.passes = @ + 1]

(* -------------------------------- nnls --------------------------------- *)
\* maxiter=None, the default of the parameter
NoMaxIter == -1
\* the shapes of the arrays A and b a caller passes, the maxiter it passes
\* and the info the solver _nnls may report
AShapes == {<<2>>, <<2, 2>>, <<3, 2>>, <<2, 2, 2>>}
BShapes == {<<2>>, <<3>>, <<2, 1>>, <<2, 2>>, <<2, 1, 1>>}
MaxIterArgs == {NoMaxIter, 0, 1, 5}
NnlsInfos == 1..3

\* no call of nnls yet; called tells whether the solver was called, used is
\* the maxiter it was given and info what it reported
Nnls_blank ==
    [phase |-> "new", A |-> None, b |-> None, finite |-> TRUE,
     maxiter |-> NoMaxIter, exc |-> "", called |-> FALSE, used |-> 0,
     info |-> 0, returned |-> FALSE]

\* not maxiter
Falsy(maxiter) == maxiter = NoMaxIter \/ maxiter = 0

\* a faulty default of n iterations
nnls_maxiter_n(maxiter, n) == IF Falsy(maxiter) THEN n ELSE maxiter

\* the maxiter handed to the solver
nnls_maxiter(maxiter, n) == IF Falsy(maxiter) THEN 3 * n ELSE maxiter

\* nnls(A, b, maxiter=maxiter) for arrays of the shapes A and b, finite or
\* not, when the solver, if it is called, reports info
nnls(A, b, finite, maxiter, info) ==
    LET call == [Nnls_blank EXCEPT !.phase = "done", !.A = A, !.b = b,
                                   !.finite = finite, !.maxiter = maxiter]
        b1 == IF Len(b) = 2 /\ b[2] = 1 THEN <<b[1]>> ELSE b
    IN  IF ~finite THEN [call EXCEPT !.exc = "ValueError"]
        ELSE IF Len(A) # 2 THEN [call EXCEPT !.exc = "ValueError"]
        ELSE IF Len(b) > 2 \/ (Len(b) = 2 /\ b[2] # 1)
        THEN [call EXCEPT !.exc = "ValueError"]
        ELSE IF A[1] # b1[1] THEN [call EXCEPT !.exc = "ValueError"]
        ELSE LET solved == [call EXCEPT !.called = TRUE,
                                        !.used = nnls_maxiter(maxiter, A[2]),
                                        !.info = info]
             IN  IF info = 3 THEN [solved EXCEPT !.exc = "RuntimeError"]
                 ELSE [solved EXCEPT !.returned = TRUE]

(* ------------------------ what a caller observes ------------------------ *)
\* the public counters, the cache and the collaborators' books of an engine
Scalar_view(s) ==
    [x |-> s.x, nfev |-> Scalar_nfev(s), nder |-> Scalar_ngev(s),
     nhev |-> Scalar_nhev(s), n_fun |-> s.n_fun, n_der |-> s.n_grad,
     n_hess |-> s.n_hess, n_fd |-> s.n_fd, fd_sum |-> s.fd_sum,
     updates |-> s.hus.updates, last |-> s.hus.last,
     f_updated |-> s.f_updated, d_updated |-> s.g_updated,
     H_updated |-> s.H_updated, f |-> s.f, d |-> s.g, H |-> s.H, v |-> None,
     x_prev |-> s.x_prev, d_prev |-> s.g_prev, d_repr |-> "dense"]

Vector_view(s) ==
    [x |-> s.x, nfev |-> Vector_nfev(s), nder |-> Vector_njev(s),
     nhev |-> Vector_nhev(s), n_fun |-> s.n_fun, n_der |-> s.n_jac,
     n_hess |-> s.n_hess, n_fd |-> s.n_fd, fd_sum |-> s.fd_sum,
     updates |-> s.hus.updates, last |-> s.hus.last,
     f_updated |-> s.f_updated, d_updated |-> s.J_updated,
     H_updated |-> s.H_updated, f |-> s.f, d |-> s.J, H |-> s.H, v |-> s.v,
     x_prev |-> s.x_prev, d_prev |-> s.J_prev, d_repr |-> s.J_repr]

\* one accessor call: its arguments, the engine before and after it
\* d_fun, d_nfev: the user's fun calls and the nfev increase during the call;
\* hit_x: the call found x equal to the stored point; first: no call before it;
\* back: the two calls before it were fun calls and the older was at this x
CallRecord(kind, op, x, v, pre, post, raised) ==
    [kind |-> kind, op |-> op, x |-> x, v |-> v, pre |-> pre, post |-> post,
     raised |-> raised,
     d_fun |-> post.n_fun - pre.n_fun,
     d_nfev |-> post.nfev - pre.nfev,
     hit_x |-> array_equal(x, pre.x),
     first |-> calls = 0,
     back |-> /\ Len(hist) = 2
              /\ hist[1].op = "fun" /\ hist[2].op = "fun"
              /\ hist[1].x = x]

\* the last call is kept whole, the call before it without its pre-state
Push(h, e) ==
    IF h = <<>> THEN <<e>> ELSE <<[h[Len(h)] EXCEPT !.pre = None], e>>

\* accessor calls the caller makes after construction
Budget(sc) == IF sc \in {"full", "memory", "faulty"} THEN 2 ELSE MaxCalls

\* the nfev approx_derivative may report to an engine that uses it
FDReports(differences) == IF differences THEN 0..MaxFDEvals ELSE {0}

\* the caller enters an accessor: the previous exception is gone
Enter(s) == [s EXCEPT !.raised = ""]

(* --------------------- the finite-difference fan-out -------------------- *)
\* what the claims about the fan-out compare: the view of the engine and the
\* best-point tracker
Scalar_observed(s) ==
    [view |-> Scalar_view(s), lowest |-> <<s._lowest_x, s._lowest_f>>]
Vector_observed(s) == [view |-> Vector_view(s), lowest |-> <<>>]

\* no computation in flight. kind and x tell the accessor call under way, pre
\* the view of the engine before that call, entered what was observable when
\* approx_derivative was entered, atomic what is observable after the call
\* when the evaluations run one after the other; todo are the perturbed
\* points not yet handed to a worker, busy those a worker is evaluating, read
\* the nfev of the function wrapper each worker read, vals the values
\* received, overlapped whether two evaluations ran at the same time
FD_blank ==
    [phase |-> "idle", kind |-> "", x |-> None, pre |-> None,
     entered |-> None, atomic |-> None, todo |-> {}, busy |-> {},
     read |-> <<0, 0>>, vals |-> <<>>, overlapped |-> FALSE]

\* approx_derivative is entered for the n perturbed points of a call
FD_enter(kind, x, pre, entered, atomic, zero) ==
    [FD_blank EXCEPT !.phase = "running", !.kind = kind, !.x = x,
                     !.pre = pre, !.entered = entered, !.atomic = atomic,
                     !.todo = 1..2, !.vals = <<zero, zero>>]

\* _ScalarFunctionWrapper.__call__ at a perturbed point: nothing of the
\* engine is written
ScalarFunctionWrapper_call(s) == s

\* a faulty function wrapper that counts the evaluation in the engine's _nfev
VectorFunWrapper_call_counts(s, n) ==
    [s EXCEPT !.fw_nfev = n + 1, !._nfev = @ + 1]

\* _VectorFunWrapper.__call__ at a perturbed point by a worker that read n
\* as self.nfev: self.nfev += 1 is a read and a write
VectorFunWrapper_call(s, n) == [s EXCEPT !.fw_nfev = n + 1]

\* the forward differences from the values vals received for the perturbed
\* points and the base value f0
approx_grad_of(vals, f0) == [i \in 1..2 |-> vals[i] - f0]
approx_jac_of(vals, f0) == [i \in 1..2 |-> [j \in 1..2 |-> vals[j][i] - f0[i]]]

\* _ScalarGradWrapper.__call__ and _update_grad after approx_derivative has
\* returned g, and the return of the accessor grad
Scalar_grad_returns(s, g) ==
    Returned([Rebound(s, "g") EXCEPT !.g = g,
                                     !.n_fd = @ + 1,
                                     !.fd_sum = @ + s.fd_nfev,
                                     !.wg_nfev = @ + s.fd_nfev,
                                     !.wg_ngev = @ + 1,
                                     !.g_updated = TRUE], "g")

\* _VectorJacWrapper.__call__ and _update_jac after approx_derivative has
\* returned J
Vector_jac_returns(s, J) ==
    [s EXCEPT !.J = J,
              !.J_repr = VectorJacWrapper_normalize(s.sparse_jacobian, "dense"),
              !.n_fd = @ + 1,
              !.fd_sum = @ + s.fd_nfev,
              !.jw_nfev = @ + s.fd_nfev,
              !.J_updated = TRUE]

(* ------------------------------ actions -------------------------------- *)
Fresh ==
    /\ phase = "new"
    /\ ctor = [kind |-> "", grad |-> "", hess |-> ""]
    /\ sf = Scalar_blank
    /\ vf = Vector_blank
    /\ calls = 0
    /\ hist = <<>>
    /\ caller = [x0 |-> None, xs |-> {}, arr |-> None]
    /\ lvf = Linear_blank
    /\ lret = None
    /\ sq = Slsqp_blank
    /\ nn = Nnls_blank
    /\ fd = FD_blank

Init == scope = "core" /\ Fresh
InitFull == scope = "full" /\ Fresh
InitBest == scope = "best" /\ Fresh
InitLinear == scope = "linear" /\ Fresh
InitMemory == scope = "memory" /\ Fresh
InitSlsqp == scope = "slsqp" /\ Fresh
InitNnls == scope = "nnls" /\ Fresh
InitRepr == scope = "repr" /\ Fresh
InitWorkers == scope = "workers" /\ Fresh
InitFaulty == scope = "faulty" /\ Fresh
InitFailed == scope = "failed" /\ Fresh

\* the caller constructs an engine from the array x0
Constructs(x0) == caller' = [caller EXCEPT !.x0 = x0, !.arr = x0]
\* the caller passes the array x to the accessor op; in scope "best" it keeps
\* the points it asked fun for
Passes(op, x) ==
    caller' = [caller EXCEPT !.arr = x,
                             !.xs = IF scope = "best" /\ op = "fun"
                                    THEN @ \cup {x} ELSE @]

ConstructScalar ==
    /\ phase = "new"
    /\ \E x0 \in StartPoints(scope), dt \in DTypes,
          grad \in GradArgs(scope), hess \in HessArgs(scope) :
         \E k \in FDReports(grad \in FD_METHODS \/ hess \in FD_METHODS),
            user \in Users(scope) :
           /\ Holds(dt, x0)
           /\ LET s == Scalar_init(x0, dt, grad, hess, k, user)
              IN  /\ sf' = s
                  /\ phase' = IF Raised(s) THEN "error" ELSE "scalar"
           /\ ctor' = [kind |-> "scalar", grad |-> grad, hess |-> hess]
           /\ Constructs(x0)
    /\ UNCHANGED <<scope, fd, sq, nn, vf, calls, hist, lvf, lret>>

ConstructVector ==
    /\ phase = "new"
    /\ \E x0 \in StartPoints(scope), dt \in DTypes,
          jac \in GradArgs(scope), hess \in HessArgs(scope) :
         \E k \in FDReports(jac \in FD_METHODS), user \in Users(scope),
            sparse_jacobian \in SparseJacobianArgs(scope) :
           /\ Holds(dt, x0)
           /\ LET s == Vector_init(x0, dt, jac, hess, k, user, sparse_jacobian)
              IN  /\ vf' = s
                  /\ phase' = IF Raised(s) THEN "error" ELSE "vector"
           /\ ctor' = [kind |-> "vector", grad |-> jac, hess |-> hess]
           /\ Constructs(x0)
    /\ UNCHANGED <<scope, fd, sq, nn, sf, calls, hist, lvf, lret>>

\* a call of a ScalarFunction accessor: op(s, x) is the object after it
ScalarCall(name, x, s) ==
    /\ sf' = s
    /\ hist' = Push(hist, CallRecord("scalar", name, x, None, Scalar_view(sf),
                                     Scalar_view(s), s.raised))
    /\ calls' = calls + 1
    /\ Passes(name, x)
    /\ UNCHANGED <<scope, fd, sq, nn, phase, ctor, vf, lvf, lret>>

ScalarReady == phase = "scalar" /\ calls < Budget(scope)

ScalarFun ==
    /\ ScalarReady
    /\ \E x \in Points : ScalarCall("fun", x, Scalar_fun(Enter(sf), x))

ScalarGrad ==
    /\ ScalarReady
    /\ \E x \in Points : ScalarCall("grad", x, Scalar_grad(Enter(sf), x))

ScalarHess ==
    /\ ScalarReady
    /\ \E x \in Points : ScalarCall("hess", x, Scalar_hess(Enter(sf), x))

ScalarFunAndGrad ==
    /\ ScalarReady
    /\ \E x \in Points : ScalarCall("fun_and_grad", x, Scalar_fun_and_grad(Enter(sf), x))

\* a call of a VectorFunction accessor
VectorCall(name, x, v, s) ==
    /\ vf' = s
    /\ hist' = Push(hist, CallRecord("vector", name, x, v, Vector_view(vf),
                                     Vector_view(s), s.raised))
    /\ calls' = calls + 1
    /\ Passes(name, x)
    /\ UNCHANGED <<scope, fd, sq, nn, phase, ctor, sf, lvf, lret>>

VectorReady == phase = "vector" /\ calls < Budget(scope)

VectorFun ==
    /\ VectorReady
    /\ \E x \in Points : VectorCall("fun", x, None, Vector_fun(Enter(vf), x))

VectorJac ==
    /\ VectorReady
    /\ \E x \in Points : VectorCall("jac", x, None, Vector_jac(Enter(vf), x))

VectorHess ==
    /\ VectorReady
    /\ \E x \in Points, v \in Multipliers :
         VectorCall("hess", x, v, Vector_hess(Enter(vf), x, v))

\* between two calls the caller writes w into the array it passed as v, which
\* is the array the engine stores
CallerMutatesV ==
    /\ phase = "vector"
    /\ calls < Budget(scope)
    /\ vf.v_alias
    /\ \E w \in Multipliers :
         /\ w # vf.v
         /\ vf' = [vf EXCEPT !.v = w]
    /\ UNCHANGED <<scope, fd, sq, nn, phase, ctor, sf, calls, hist, caller, lvf, lret>>

ConstructLinear ==
    /\ phase = "new"
    /\ \E A \in Matrices, x0 \in StartPoints(scope), dt \in DTypes :
         /\ Holds(dt, x0)
         /\ lvf' = Linear_init(A, x0, dt)
         /\ ctor' = [kind |-> "linear", grad |-> "", hess |-> ""]
         /\ Constructs(x0)
    /\ phase' = "linear"
    /\ UNCHANGED <<scope, fd, sq, nn, sf, vf, calls, hist, lret>>

\* a call of a LinearVectorFunction accessor that returned val
LinearCall(name, x, v, s, val) ==
    /\ lvf' = s
    /\ lret' = [op |-> name, x |-> x, v |-> v, val |-> val, pre |-> lvf]
    /\ calls' = calls + 1
    /\ Passes(name, x)
    /\ UNCHANGED <<scope, fd, sq, nn, phase, ctor, sf, vf, hist>>

LinearReady == phase = "linear" /\ calls < Budget(scope)

LinearFun ==
    /\ LinearReady
    /\ \E x \in Points :
         LinearCall("fun", x, None, Linear_fun(lvf, x), Linear_fun(lvf, x).f)

LinearJac ==
    /\ LinearReady
    /\ \E x \in Points :
         LinearCall("jac", x, None, Linear_jac(lvf, x), Linear_jac(lvf, x).J)

LinearHess ==
    /\ LinearReady
    /\ \E x \in Points, v \in Multipliers :
         LinearCall("hess", x, v, Linear_hess(lvf, x, v), Linear_hess(lvf, x, v).H)

Next ==
    \/ ConstructScalar
    \/ ConstructVector
    \/ ScalarFun
    \/ ScalarGrad
    \/ ScalarHess
    \/ ScalarFunAndGrad
    \/ VectorFun
    \/ VectorJac
    \/ VectorHess
    \/ CallerMutatesV

Spec == Init /\ [][Next]_vars
SpecFull == InitFull /\ [][Next]_vars
\* a caller whose fun and grad / jac may raise
SpecFaulty == InitFaulty /\ [][Next]_vars
\* the same caller, followed for as many calls as the core specification
SpecFailed == InitFailed /\ [][Next]_vars

\* the caller overwrites the array it passed last as x0 or as x
CallerMutatesX ==
    /\ phase \in {"scalar", "vector", "linear"}
    /\ calls < Budget(scope)
    /\ \E w \in Points \ {caller.arr} :
         /\ caller' = [caller EXCEPT !.arr = w]
         /\ sf' = IF phase = "scalar" /\ sf.x_alias
                  THEN [sf EXCEPT !.x = w] ELSE sf
         /\ vf' = IF phase = "vector" /\ vf.x_alias
                  THEN [vf EXCEPT !.x = w] ELSE vf
         /\ lvf' = IF phase = "linear" /\ lvf.x_alias
                   THEN [lvf EXCEPT !.x = w] ELSE lvf
    /\ UNCHANGED <<scope, fd, sq, nn, phase, ctor, calls, hist, lret>>

\* the caller overwrites an array that an accessor returned to it
CallerMutatesReturned ==
    /\ calls < Budget(scope)
    /\ \/ /\ phase = "scalar"
          /\ \E b \in sf.out :
               /\ sf' = IF b = "g" THEN [sf EXCEPT !.g = Filled(@)]
                        ELSE [sf EXCEPT !.H.val = FilledMatrix(@)]
               /\ sf' # sf
          /\ lvf' = lvf
       \/ /\ phase = "linear"
          /\ \E b \in lvf.out :
               /\ lvf' = IF b = "f" THEN [lvf EXCEPT !.f = Filled(@)]
                         ELSE [lvf EXCEPT !.J = FilledMatrix(@)]
               /\ lvf' # lvf
          /\ sf' = sf
    /\ UNCHANGED <<scope, fd, sq, nn, phase, ctor, vf, calls, hist, caller, lret>>

\* a caller that constructs a ScalarFunction and only asks for values
NextBest == ConstructScalar \/ ScalarFun
SpecBest == InitBest /\ [][NextBest]_vars

\* a caller of a LinearVectorFunction
NextLinear == ConstructLinear \/ LinearFun \/ LinearJac \/ LinearHess
SpecLinear == InitLinear /\ [][NextLinear]_vars

\* a caller that keeps and overwrites the arrays it passed and received
NextMemory ==
    \/ Next
    \/ NextLinear
    \/ CallerMutatesX
    \/ CallerMutatesReturned
SpecMemory == InitMemory /\ [][NextMemory]_vars

\* a caller of a VectorFunction whose jac returns any representation
NextRepr == ConstructVector \/ VectorJac
SpecRepr == InitRepr /\ [][NextRepr]_vars

\* the caller asks a ScalarFunction with a finite-difference gradient and a
\* callable Hessian for grad(x); the gradient is not cached and
\* approx_derivative is entered
ScalarGradEntersFD ==
    /\ ScalarReady
    /\ fd.phase # "running"
    /\ sf._orig_grad \in FD_METHODS
    /\ callable(sf._orig_hess)
    /\ \E x \in Points :
         LET s0 == Scalar_update_fun(Scalar_moved(Enter(sf), x))
         IN  /\ ~s0.g_updated
             /\ sf' = s0
             /\ fd' = FD_enter("scalar", x, Scalar_view(sf), Scalar_observed(s0),
                               Scalar_observed(Scalar_grad(Enter(sf), x)), 0)
    /\ UNCHANGED <<scope, sq, nn, phase, ctor, vf, calls, hist, caller, lvf,
                   lret>>

\* the same for jac(x) of a VectorFunction with a finite-difference Jacobian
\* and a callable Hessian
VectorJacEntersFD ==
    /\ VectorReady
    /\ fd.phase # "running"
    /\ vf._orig_jac \in FD_METHODS
    /\ callable(vf._orig_hess)
    /\ \E x \in Points :
         LET s0 == Vector_update_fun(Vector_update_x(Enter(vf), x))
         IN  /\ ~s0.J_updated
             /\ vf' = s0
             /\ fd' = FD_enter("vector", x, Vector_view(vf), Vector_observed(s0),
                               Vector_observed(Vector_jac(Enter(vf), x)),
                               <<0, 0>>)
    /\ UNCHANGED <<scope, sq, nn, phase, ctor, sf, calls, hist, caller, lvf,
                   lret>>

\* the workers map hands a perturbed point to a worker, which enters the
\* function wrapper
WorkerStarts ==
    /\ fd.phase = "running"
    /\ \E i \in fd.todo :
         fd' = [fd EXCEPT !.todo = @ \ {i},
                          !.busy = @ \cup {i},
                          !.read[i] = IF fd.kind = "vector" THEN vf.fw_nfev
                                      ELSE 0,
                          !.overlapped = @ \/ fd.busy # {}]
    /\ UNCHANGED <<scope, sq, nn, phase, ctor, sf, vf, calls, hist, caller,
                   lvf, lret>>

\* a worker leaves the function wrapper with the value at its perturbed point
WorkerFinishes ==
    /\ fd.phase = "running"
    /\ \E i \in fd.busy :
         /\ fd' = [fd EXCEPT !.busy = @ \ {i},
                             !.vals[i] =
                                 IF fd.kind = "scalar"
                                 THEN UserFun(VecAdd(sf.x, Unit(i)))
                                 ELSE UserVFun(VecAdd(vf.x, Unit(i)))]
         /\ sf' = IF fd.kind = "scalar" THEN ScalarFunctionWrapper_call(sf)
                  ELSE sf
         /\ vf' = IF fd.kind = "vector"
                  THEN VectorFunWrapper_call(vf, fd.read[i]) ELSE vf
    /\ UNCHANGED <<scope, sq, nn, phase, ctor, calls, hist, caller, lvf, lret>>

\* every value is in: approx_derivative returns, the engine stores the
\* derivative and the accessor returns
FDReturns ==
    /\ fd.phase = "running"
    /\ fd.todo = {}
    /\ fd.busy = {}
    /\ fd' = [fd EXCEPT !.phase = "returned"]
    /\ sf' = IF fd.kind = "scalar"
             THEN Scalar_grad_returns(sf, approx_grad_of(fd.vals, sf.f))
             ELSE sf
    /\ vf' = IF fd.kind = "vector"
             THEN Vector_jac_returns(vf, approx_jac_of(fd.vals, vf.f))
             ELSE vf
    /\ hist' = Push(hist,
                    IF fd.kind = "scalar"
                    THEN CallRecord("scalar", "grad", fd.x, None, fd.pre,
                                    Scalar_view(sf'), "")
                    ELSE CallRecord("vector", "jac", fd.x, None, fd.pre,
                                    Vector_view(vf'), ""))
    /\ calls' = calls + 1
    /\ Passes(IF fd.kind = "scalar" THEN "grad" ELSE "jac", fd.x)
    /\ UNCHANGED <<scope, sq, nn, phase, ctor, lvf, lret>>

\* a caller whose engines difference over a workers map
NextWorkers ==
    \/ ConstructScalar
    \/ ConstructVector
    \/ ScalarGradEntersFD
    \/ VectorJacEntersFD
    \/ WorkerStarts
    \/ WorkerFinishes
    \/ FDReturns
SpecWorkers == InitWorkers /\ [][NextWorkers]_vars

\* a caller calls fmin_slsqp; the run reaches the loop
FminSlsqp ==
    /\ sq.phase = "new"
    /\ \E x0 \in SlsqpStarts, dt \in DTypes, bounds \in SlsqpBounds,
          eqcons \in EqConsLists, ieqcons \in IeqConsLists,
          f_eqcons \in FEqCons, f_ieqcons \in FIeqCons, fprime \in FPrimes,
          callback \in BOOLEAN :
         \E k \in FDReports(~callable(fprime)) :
           /\ Holds(dt, x0)
           /\ sq' = Slsqp_enter(x0, dt, bounds, eqcons, ieqcons, f_eqcons,
                                f_ieqcons, fprime, callback, k)
    /\ UNCHANGED <<scope, fd, nn, phase, ctor, sf, vf, calls, hist, caller, lvf,
                   lret>>

\* a caller calls _minimize_slsqp with constraints of its own making
MinimizeSlsqp ==
    /\ sq.phase = "new"
    /\ \E constraints \in ConstraintArgs, fprime \in FPrimes :
         \E k \in FDReports(~callable(fprime)) :
           sq' = Slsqp_minimize(<<4, 2>>, "float64", SlsqpUnbounded,
                                constraints, fprime, FALSE, k)
    /\ UNCHANGED <<scope, fd, nn, phase, ctor, sf, vf, calls, hist, caller, lvf,
                   lret>>

\* the solver returns: with a request for an evaluation while the run may go
\* on, with an exit mode at any time
SlsqpPass ==
    /\ sq.phase = "loop"
    /\ \E mode \in (IF sq.passes + 1 < MaxPasses THEN EvalModes ELSE {})
                       \cup ExitModes,
          x \in SolverPoints, iter \in {sq.iter, sq.iter + 1} :
         sq' = Slsqp_pass(sq, mode, x, iter)
    /\ UNCHANGED <<scope, fd, nn, phase, ctor, sf, vf, calls, hist, caller, lvf,
                   lret>>

NextSlsqp == FminSlsqp \/ MinimizeSlsqp \/ SlsqpPass
SpecSlsqp == InitSlsqp /\ [][NextSlsqp]_vars

\* a caller calls nnls
NnlsCall ==
    /\ \E A \in AShapes, b \in BShapes, finite \in BOOLEAN,
          maxiter \in MaxIterArgs, info \in NnlsInfos :
         nn' = nnls(A, b, finite, maxiter, info)
    /\ UNCHANGED <<scope, fd, sq, phase, ctor, sf, vf, calls, hist, caller, lvf,
                   lret>>

NextNnls == NnlsCall
SpecNnls == InitNnls /\ [][NextNnls]_vars

(* ------------------------------ claims --------------------------------- *)
Last == hist[Len(hist)]
Called == hist # <<>>
\* the engine in use, as a caller observes it
Engine == IF phase = "scalar" THEN Scalar_view(sf) ELSE Vector_view(vf)
\* the dtype the engine stores its point in
EngineDType == IF phase = "scalar" THEN sf.x_dtype ELSE vf.x_dtype
Stored(x) == astype(x, EngineDType)
\* the user's function of the engine in use
FunAt(x) == IF phase = "scalar" THEN UserFun(x) ELSE UserVFun(x)
\* the engine's gradient / Jacobian strategy applied at the stored point x
GradAt(x) ==
    IF callable(sf._orig_grad) THEN UserGrad(x) ELSE approx_grad(x, UserFun(x))
JacAt(x) ==
    IF callable(vf._orig_jac) THEN UserJac(x) ELSE approx_jac(x, UserVFun(x))
\* the last two calls were op1 and then op2, both returned, with the same x
Twice(op1, op2) ==
    /\ Len(hist) = 2
    /\ hist[1].op = op1 /\ hist[2].op = op2
    /\ hist[1].raised = "" /\ hist[2].raised = ""
    /\ hist[1].x = hist[2].x

\* C1 (as claimed): fun(x) called twice in succession with the same x: the
\* second call calls the user's function not at all and leaves nfev unchanged.
C1_SecondFunIsHit ==
    Twice("fun", "fun") => (hist[2].d_fun = 0 /\ hist[2].d_nfev = 0)

\* the last three calls were fun(x1), fun(x2), fun(x1), all returned
ThereAndBack ==
    /\ Len(hist) = 2
    /\ hist[2].op = "fun" /\ hist[2].back
    /\ hist[1].raised = "" /\ hist[2].raised = ""

\* C2 (as claimed): fun(x1), fun(x2), fun(x1) with x1 # x2: the second and the
\* third call each evaluate the user's function once (the return is a miss).
C2_ReturnIsMiss ==
    (ThereAndBack /\ hist[1].x # hist[2].x)
        => (hist[1].d_fun = 1 /\ hist[2].d_fun = 1)

\* C2 (amended): fun(x1), fun(x2), fun(x1) where x1 and x2 still differ once
\* converted to the engine's dtype: the second and the third call each evaluate
\* the user's function once, and the value cached in the end is the one at the
\* stored x1.
C2_ReturnIsMissStored ==
    (ThereAndBack /\ Stored(hist[1].x) # Stored(hist[2].x))
        => /\ hist[1].d_fun = 1 /\ hist[2].d_fun = 1
           /\ hist[2].post.n_fun = hist[1].post.n_fun + 1
           /\ hist[2].post.f_updated
           /\ hist[2].post.x = Stored(Last.x)
           /\ hist[2].post.f = FunAt(Stored(Last.x))

C2_Witness ==
    /\ ThereAndBack /\ Stored(hist[1].x) # Stored(hist[2].x)
    /\ hist[1].d_fun = 1 /\ hist[2].d_fun = 1
    /\ Engine.n_fun >= 3

\* C3 (as claimed): ScalarFunction with a finite-difference gradient: grad(x)
\* at a new point evaluates and caches the base value, and the fun(x) that
\* follows evaluates nothing and leaves nfev unchanged.
C3_BaseValueCached ==
    (phase = "scalar" /\ Twice("grad", "fun")
        /\ sf._orig_grad \in FD_METHODS /\ ~hist[1].hit_x)
        => /\ hist[1].d_fun = 1
           /\ hist[2].d_fun = 0 /\ hist[2].d_nfev = 0

\* the Hessian of the VectorFunction is the one of the stored point and of w
HessIsFor(view, w) ==
    \/ view.H.tag = "dense" /\ view.H.val = UserVHess(view.x, w)
    \/ view.H.tag = "linop" /\ view.H.val = <<view.x, <<TDot(view.d, w), w>>>>
    \/ view.H.tag = "hus"

\* C4 (as claimed): VectorFunction: hess(x, v2) after hess(x, v1), v1 # v2:
\* the Hessian is recomputed for v2; f and J stay as valid as they were, the
\* user's fun and jac are not called and nfev and njev do not change.
C4_OnlyHessianRecomputed ==
    (phase = "vector" /\ Twice("hess", "hess") /\ hist[1].v # hist[2].v)
        => /\ HessIsFor(Last.post, Last.v)
           /\ callable(vf._orig_hess) => Last.post.nhev = Last.pre.nhev + 1
           /\ Last.pre.f_updated => Last.post.f_updated
           /\ Last.pre.d_updated => Last.post.d_updated
           /\ Last.d_fun = 0 /\ Last.d_nfev = 0
           /\ Last.post.n_der = Last.pre.n_der
           /\ Last.post.nder = Last.pre.nder

ScalarQN == phase = "scalar" /\ isHessianUpdateStrategy(sf._orig_hess)
VectorQN == phase = "vector" /\ isHessianUpdateStrategy(vf._orig_hess)

\* the last call fed the update object exactly once, with (dx, dg)
FedOnce(dx, dg) ==
    /\ Last.post.updates = Last.pre.updates + 1
    /\ Last.post.last = <<dx, dg>>

\* C5 (as claimed): ScalarFunction with a quasi-Newton Hessian: hess(x0) right
\* after construction feeds no update; a call that moves the stored point from
\* x_old to x_new feeds exactly one, (x_new - x_old, grad(x_new) - grad(x_old));
\* a call that leaves the stored point where it was feeds none.
C5_OneUpdatePerMove ==
    (ScalarQN /\ Called /\ Last.raised = "")
        => /\ (Last.first /\ Last.op = "hess" /\ Last.hit_x)
               => (Last.post.updates = 0 /\ sf.hus.inits = 1)
           /\ Last.post.x # Last.pre.x
               => FedOnce(VecSub(Last.post.x, Last.pre.x),
                          VecSub(GradAt(Last.post.x), GradAt(Last.pre.x)))
           /\ Last.post.x = Last.pre.x
               => Last.post.updates = Last.pre.updates

\* the last call was a hess(x, v) of a quasi-Newton VectorFunction
QNHessCall == VectorQN /\ Called /\ Last.op = "hess"

\* C6: VectorFunction with a quasi-Newton Hessian: a hess(x', v') that changes
\* both the point and the multiplier stores v' before it moves the point, so
\* the update object is fed exactly once, with the step of the stored point and
\* with delta_g = J(x')^T v' - J(x_old)^T v', both Jacobians under the new v'.
C6_MultiplierBeforePoint ==
    (QNHessCall /\ ~Last.hit_x /\ Last.v # Last.pre.v)
        => /\ Last.raised = ""
           /\ Last.post.v = Last.v
           /\ FedOnce(VecSub(Last.post.x, Last.pre.x),
                      VecSub(TDot(JacAt(Last.post.x), Last.v),
                             TDot(JacAt(Last.pre.x), Last.v)))

C6_Witness ==
    /\ QNHessCall /\ ~Last.hit_x /\ Last.v # Last.pre.v
    /\ Last.post.x # Last.pre.x
    /\ Last.post.updates = Last.pre.updates + 1
    /\ Last.post.last[2] # <<0, 0>>
    /\ Last.post.last[2] # VecSub(TDot(JacAt(Last.post.x), Last.pre.v),
                                  TDot(JacAt(Last.pre.x), Last.pre.v))

\* C7: VectorFunction with a quasi-Newton Hessian: a hess(x0, v) that changes
\* the multiplier while the point has never moved (no previous point, no
\* previous Jacobian) feeds no update and returns normally.
C7_NoUpdateBeforeFirstMove ==
    (QNHessCall /\ Last.hit_x /\ Last.v # Last.pre.v
        /\ Last.pre.x_prev = None /\ Last.pre.d_prev = None)
        => /\ Last.raised = ""
           /\ Last.post.updates = 0
           /\ Last.post.H_updated
           /\ Last.post.v = Last.v

C7_Witness ==
    /\ QNHessCall /\ Last.hit_x /\ Last.v # Last.pre.v
    /\ Last.pre.x_prev = None /\ Last.pre.d_prev = None
    /\ Last.raised = "" /\ Last.post.updates = 0 /\ Last.post.H_updated

\* the exception the constructor ended with, "" when it returned
CtorRaised == IF ctor.kind = "scalar" THEN sf.raised ELSE vf.raised
\* the constructor called none of the user's callables, not the
\* finite-difference routine, and did not initialize the update object
NothingCalled ==
    IF ctor.kind = "scalar"
    THEN sf.n_fun = 0 /\ sf.n_grad = 0 /\ sf.n_hess = 0 /\ sf.n_fd = 0
         /\ sf.hus.inits = 0
    ELSE vf.n_fun = 0 /\ vf.n_jac = 0 /\ vf.n_hess = 0 /\ vf.n_fd = 0
         /\ vf.hus.inits = 0

\* C8: a constructor given a finite-difference method for both derivative
\* levels raises ValueError, for each of the nine pairs of methods and for
\* both engines.
C8_BothFiniteDifferenceRejected ==
    (ctor.kind # "" /\ ctor.grad \in FD_METHODS /\ ctor.hess \in FD_METHODS)
        => (phase = "error" /\ CtorRaised = "ValueError")

C8_Witness ==
    /\ ctor = [kind |-> "vector", grad |-> "3-point", hess |-> "cs"]
    /\ phase = "error" /\ vf.raised = "ValueError"

\* C9: a constructor given a first-derivative or second-derivative strategy
\* that is no callable, no finite-difference method and (for hess) no update
\* object raises ValueError before any user callable is called and before the
\* update object is initialized.
C9_UnknownStrategyRejectedFirst ==
    (ctor.kind # ""
        /\ (~(callable(ctor.grad) \/ ctor.grad \in FD_METHODS)
            \/ ~(callable(ctor.hess) \/ ctor.hess \in FD_METHODS
                 \/ isHessianUpdateStrategy(ctor.hess))))
        => (phase = "error" /\ CtorRaised = "ValueError" /\ NothingCalled)

C9_Witness ==
    /\ ctor = [kind |-> "scalar", grad |-> "callable", hess |-> "bogus"]
    /\ phase = "error" /\ sf.raised = "ValueError" /\ sf.n_fun = 0

\* C10: nfev is the number of primary evaluations (one at construction, one
\* more for every miss of the value cache) plus the evaluations the
\* finite-difference routine reported; a report of zero adds nothing.
C10_NfevAccounting ==
    /\ phase \in {"scalar", "vector"}
        => /\ Engine.n_fun >= 1
           /\ calls = 0 => Engine.n_fun = 1
           /\ Engine.nfev = Engine.n_fun + Engine.fd_sum
    /\ phase = "scalar" => sf.fd_sum = sf.n_fd * sf.fd_nfev
    /\ phase = "vector" => vf.fd_sum = vf.n_fd * vf.fd_nfev
    /\ Called
        => /\ Last.d_fun = IF Last.post.f_updated
                              /\ (~Last.hit_x \/ ~Last.pre.f_updated)
                           THEN 1 ELSE 0
           /\ Last.d_nfev = Last.d_fun + (Last.post.fd_sum - Last.pre.fd_sum)

C10_Witness ==
    /\ phase = "scalar" /\ Called
    /\ Last.d_fun = 1 /\ Last.post.fd_sum > Last.pre.fd_sum
    /\ sf.n_fun >= 2
    /\ Scalar_nfev(sf) = sf.n_fun + sf.fd_sum

\* the last call computed the quantity whose cache flag is given before and
\* after it: the flag is set now, and the call moved the point or found it clear
Missed(before, after) == after /\ (~Last.hit_x \/ ~before)

C12_NjevCountsJacobians ==
    phase = "vector"
        => /\ Vector_njev(vf) = vf.n_jac + vf.n_fd
           /\ calls = 0 => Vector_njev(vf) = 1
           /\ (Called /\ Last.raised = "")
               => Last.post.nder - Last.pre.nder
                      = IF Missed(Last.pre.d_updated, Last.post.d_updated)
                        THEN 1 ELSE 0

\* the last call computed a Hessian: H is valid now, and the call moved the
\* point, changed the multiplier or found H invalid
MissedH ==
    /\ Last.post.H_updated
    /\ \/ ~Last.hit_x
       \/ ~Last.pre.H_updated
       \/ Last.op = "hess" /\ Last.v # Last.pre.v

\* the growth of nhev in the last call is one if it computed a Hessian, else none
NhevPerMiss ==
    (Called /\ Last.raised = "")
        => Last.post.nhev - Last.pre.nhev = IF MissedH THEN 1 ELSE 0

\* C13 (as claimed): nhev of ScalarFunction and VectorFunction grows by one
\* each time the engine computes a Hessian, at construction and on every miss
\* of the Hessian cache, whatever the Hessian strategy.
C13_NhevCountsHessians ==
    phase \in {"scalar", "vector"}
        => /\ calls = 0 => Engine.nhev = 1
           /\ NhevPerMiss

\* C13 (amended): nhev is the number of calls of the user's Hessian callable:
\* with a callable hess it is one after construction and grows by one on every
\* miss of the Hessian cache; with a finite-difference or quasi-Newton Hessian
\* it stays zero however often the engine computes or updates a Hessian.
C13_NhevCountsHessCalls ==
    phase \in {"scalar", "vector"}
        => /\ Engine.nhev = Engine.n_hess
           /\ callable(ctor.hess)
               => /\ calls = 0 => Engine.nhev = 1
                  /\ NhevPerMiss
           /\ ~callable(ctor.hess) => Engine.nhev = 0

C13_Witness ==
    /\ phase = "vector" /\ callable(ctor.hess) /\ Called /\ MissedH
    /\ Last.hit_x /\ Last.pre.H_updated
    /\ Last.post.nhev = Last.pre.nhev + 1
    /\ Engine.nhev >= 2

\* C14 (as claimed): fun_and_grad(x) evaluates nothing that is cached at x:
\* called at the x of the call before it, with value and gradient valid, it
\* calls neither the user's function nor a gradient computation; at a new
\* point it evaluates the function once and computes the gradient once.
C14_NothingEvaluatedTwice ==
    (phase = "scalar" /\ Called /\ Last.op = "fun_and_grad" /\ Last.raised = "")
        => /\ (/\ Len(hist) = 2 /\ hist[1].x = Last.x /\ hist[1].raised = ""
               /\ Last.pre.f_updated /\ Last.pre.d_updated)
               => /\ Last.d_fun = 0 /\ Last.d_nfev = 0
                  /\ Last.post.nder = Last.pre.nder
           /\ ~Last.hit_x
               => /\ Last.d_fun = 1
                  /\ Last.post.nder = Last.pre.nder + 1

\* C20: ScalarFunction with a quasi-Newton Hessian: every accessor call with
\* an x that differs from the stored point stores the converted x, discards
\* the three cached quantities and returns only after the gradient has been
\* evaluated at the new point and one update has been fed to the update
\* object, also when only the value was asked for; the value itself is
\* evaluated only if the call or a finite-difference gradient needs it.
C20_EagerQuasiNewton ==
    (ScalarQN /\ Called /\ ~Last.hit_x)
        => /\ Last.raised = ""
           /\ Last.post.x = Stored(Last.x)
           /\ Last.post.x_prev = Last.pre.x
           /\ Last.post.d_updated /\ Last.post.H_updated
           /\ Last.post.d = GradAt(Last.post.x)
           /\ Last.post.nder = Last.pre.nder + 1
           /\ Last.post.updates = Last.pre.updates + 1
           /\ Last.post.last[1] = VecSub(Last.post.x, Last.pre.x)
           /\ Last.post.f_updated
               <=> (Last.op \in {"fun", "fun_and_grad"}
                    \/ sf._orig_grad \in FD_METHODS)
           /\ Last.post.f_updated => Last.post.f = UserFun(Last.post.x)

C20_Witness ==
    /\ ScalarQN /\ Called /\ ~Last.hit_x /\ Last.op = "fun"
    /\ callable(sf._orig_grad)
    /\ Last.post.x # Last.pre.x
    /\ Last.post.d_updated /\ Last.post.H_updated
    /\ Last.post.updates = Last.pre.updates + 1
    /\ Last.post.updates >= 2

\* the point of S with the least value of the user's function
BestOf(S) == CHOOSE p \in S : \A q \in S : UserFun(p) <= UserFun(q)

\* C15 (as claimed): after fun has been called at three points x1, x2, x3 the
\* tracked best point is the one of the three with the least function value,
\* with that value, in whatever order the calls were made.
C15_BestOfThree ==
    (phase = "scalar" /\ caller.xs = Points)
        => /\ sf._lowest_x = BestOf(caller.xs)
           /\ sf._lowest_f = UserFun(BestOf(caller.xs))

\* C15 (amended): the tracked best point is the one with the least function
\* value among the construction point x0 and the points fun was called at,
\* each as stored in the engine's dtype, with that value, in whatever order
\* the calls were made.
C15_BestOfAllEvaluated ==
    phase = "scalar"
        => LET S == {Stored(p) : p \in {caller.x0} \cup caller.xs}
           IN  /\ sf._lowest_x = BestOf(S)
               /\ sf._lowest_f = UserFun(BestOf(S))

C15_Witness ==
    /\ phase = "scalar" /\ caller.xs = Points /\ caller.x0 = <<4, 2>>
    /\ Last.x # <<2, 2>> /\ sf.x # <<2, 2>>
    /\ sf._lowest_x = <<2, 2>> /\ sf._lowest_f = UserFun(<<2, 2>>)

\* C19 (as claimed): LinearVectorFunction built from A: after any sequence of
\* fun / jac / hess calls, fun(x) returns A x for the x of that call, jac(x)
\* returns A, and hess(x, v) returns the n x n matrix of zeros.
C19_LinearAnswers ==
    (phase = "linear" /\ lret # None)
        => /\ lret.op = "fun" => lret.val = MatVec(lvf.A, lret.x)
           /\ lret.op = "jac" => lret.val = lvf.A
           /\ lret.op = "hess" => lret.val = ZeroMatrix(lvf.n)

\* C18 (as claimed): when a user callable raises during an accessor call, the
\* three cache flags are as they were before the call, and a value that was
\* valid before the call is still the valid cached value of the stored point.
C18_FlagsSurviveFailure ==
    (phase \in {"scalar", "vector"} /\ Called /\ Last.raised = "UserError")
        => /\ Last.post.f_updated = Last.pre.f_updated
           /\ Last.post.d_updated = Last.pre.d_updated
           /\ Last.post.H_updated = Last.pre.H_updated
           /\ Last.pre.f_updated
               => Last.post.f = Last.pre.f /\ Last.post.x = Last.pre.x

\* C16: the stored point of ScalarFunction, VectorFunction and
\* LinearVectorFunction is the converted copy of the array the caller passed,
\* as that array was when it was passed: it is the point the constructor or
\* the last accessor call left, whatever the caller has since written into the
\* array and whatever the user's callables wrote into their argument, and a
\* value flagged valid is the value at the stored point.
C16_StoredPointIsACopy ==
    /\ (phase \in {"scalar", "vector"} /\ ~Called)
         => Engine.x = Stored(caller.x0)
    /\ (phase \in {"scalar", "vector"} /\ Called)
         => /\ Engine.x = Last.post.x
            /\ Last.post.x = IF Last.hit_x THEN Last.pre.x ELSE Stored(Last.x)
    /\ (phase \in {"scalar", "vector"} /\ Engine.f_updated)
         => Engine.f = FunAt(Engine.x)
    /\ (phase = "linear" /\ lret = None)
         => lvf.x = astype(caller.x0, lvf.x_dtype)
    /\ (phase = "linear" /\ lret # None)
         => lvf.x = IF array_equal(lret.x, lret.pre.x) THEN lret.pre.x
                    ELSE astype(lret.x, lvf.x_dtype)

\* a VectorFunction whose callables overwrite their argument moved to a new
\* point and evaluated fun there, the caller then overwrote the array it had
\* passed, and the stored point is still the one passed
C16_Witness ==
    /\ phase = "vector" /\ vf.user.overwrites
    /\ Called /\ ~Last.hit_x /\ Last.d_fun = 1
    /\ caller.arr # Last.x
    /\ vf.x = Stored(Last.x) /\ vf.f_updated /\ vf.f = UserVFun(vf.x)

\* the last two calls were the same accessor with the same arguments, and
\* both returned
SameCallTwice ==
    /\ Len(hist) = 2
    /\ hist[1].op = hist[2].op
    /\ hist[1].x = hist[2].x /\ hist[1].v = hist[2].v
    /\ hist[1].raised = "" /\ hist[2].raised = ""

\* C17 (as claimed): no accessor returns an internal array itself: when an
\* accessor of a ScalarFunction, or fun or jac of a VectorFunction, is called
\* twice with the same arguments, the second call finds the value, the
\* derivative and the Hessian that the first call left, whatever the caller did
\* in between to the arrays it received; and jac of a LinearVectorFunction
\* returns the matrix the engine was built from.
C17_ReturnedArraysAreCopies ==
    /\ (phase \in {"scalar", "vector"} /\ SameCallTwice /\ Last.op # "hess")
         => /\ hist[2].post.f = hist[1].post.f
            /\ hist[2].post.d = hist[1].post.d
    /\ (phase = "scalar" /\ SameCallTwice)
         => hist[2].post.H = hist[1].post.H
    /\ (phase = "linear" /\ lret # None /\ lret.op = "jac")
         => lret.val = lvf.A

\* the calls since construction, when all of them are still in hist, that
\* found x different from the stored point and moved it
Moves == {i \in 1..Len(hist) : ~hist[i].hit_x}

\* C26 (as claimed): VectorFunction with a quasi-Newton Hessian: the number of
\* update calls never exceeds the number of accessor calls that moved the
\* stored point; a change of v alone at an unchanged point feeds no update.
C26_UpdatesBoundedByMoves ==
    (VectorQN /\ Called /\ hist[1].first)
        => Last.post.updates <= Cardinality(Moves)

\* the engine's first derivative strategy applied at the stored point x
DerivAt(x) == IF phase = "scalar" THEN GradAt(x) ELSE JacAt(x)

\* C27 (as claimed): whenever an accessor call of a ScalarFunction or a
\* VectorFunction feeds the quasi-Newton update object, x_prev is the stored
\* point from before the most recent move (the point before this call if the
\* call moved it, the x_prev of before otherwise), g_prev / J_prev is the
\* gradient / Jacobian at exactly x_prev, and the step fed is x - x_prev.
C27_SnapshotBeforeOverwrite ==
    (phase \in {"scalar", "vector"} /\ Called /\ Last.raised = ""
        /\ Last.post.updates > Last.pre.updates)
        => /\ Last.post.x_prev
                 = IF Last.hit_x THEN Last.pre.x_prev ELSE Last.pre.x
           /\ Last.post.d_prev = DerivAt(Last.post.x_prev)
           /\ Last.post.last[1] = VecSub(Last.post.x, Last.post.x_prev)

\* the update object of the engine in use
EngineHUS == IF phase = "scalar" THEN sf.hus ELSE vf.hus
\* the Hessian argument the engine in use was built with
EngineHess == IF phase = "scalar" THEN sf._orig_hess ELSE vf._orig_hess

\* C28: a quasi-Newton update object given to a ScalarFunction or a
\* VectorFunction has been initialized exactly once, with the number of
\* elements of x0, in every state after construction: no update precedes the
\* initialization and no accessor call initializes it again. An engine without
\* an update object initializes none.
C28_InitializedOnce ==
    /\ (ScalarQN \/ VectorQN)
         => /\ EngineHUS.inits = 1
            /\ EngineHUS.n = Len(caller.x0)
            /\ calls = 0 => EngineHUS.updates = 0
    /\ (phase \in {"scalar", "vector"}
          /\ ~isHessianUpdateStrategy(EngineHess))
         => EngineHUS.inits = 0 /\ EngineHUS.updates = 0

\* a quasi-Newton ScalarFunction whose update object has been fed twice and
\* is still initialized once
C28_Witness ==
    /\ ScalarQN /\ calls >= 2
    /\ sf.hus.updates >= 2
    /\ sf.hus.inits = 1 /\ sf.hus.n = 2

\* the last call was an accessor call of a ScalarFunction without an update
\* object, at an x that differs from the stored point, and it returned
LazyMove ==
    /\ phase = "scalar" /\ ~isHessianUpdateStrategy(sf._orig_hess)
    /\ Called /\ ~Last.hit_x /\ Last.raised = ""

\* C29: ScalarFunction whose Hessian is no update object: grad(x) at a new
\* point, with a callable gradient, evaluates the gradient only: the user's
\* fun and hess are not called, nfev and nhev are unchanged and f and H are
\* left invalid; fun(x) at a new point evaluates the function only: no
\* gradient, no finite-difference run and no Hessian, ngev and nhev unchanged,
\* g and H left invalid.
C29_LazyRecomputation ==
    /\ (LazyMove /\ Last.op = "grad" /\ callable(sf._orig_grad))
         => /\ Last.d_fun = 0 /\ Last.d_nfev = 0
            /\ Last.post.nhev = Last.pre.nhev
            /\ Last.post.n_hess = Last.pre.n_hess
            /\ Last.post.n_der = Last.pre.n_der + 1
            /\ Last.post.d_updated
            /\ ~Last.post.f_updated /\ ~Last.post.H_updated
    /\ (LazyMove /\ Last.op = "fun")
         => /\ Last.d_fun = 1
            /\ Last.post.nder = Last.pre.nder
            /\ Last.post.n_der = Last.pre.n_der
            /\ Last.post.n_fd = Last.pre.n_fd
            /\ Last.post.nhev = Last.pre.nhev
            /\ Last.post.n_hess = Last.pre.n_hess
            /\ Last.post.f_updated
            /\ ~Last.post.d_updated /\ ~Last.post.H_updated

\* grad(x) at a new point of an engine with a callable gradient and a
\* callable Hessian, all three values valid before the call
C29_Witness ==
    /\ LazyMove /\ Last.op = "grad"
    /\ callable(sf._orig_grad) /\ callable(sf._orig_hess)
    /\ Last.pre.f_updated /\ Last.pre.d_updated /\ Last.pre.H_updated
    /\ Last.post.x # Last.pre.x
    /\ Last.post.d_updated /\ ~Last.post.f_updated /\ ~Last.post.H_updated

\* C30 (as claimed): cache coherence of ScalarFunction and VectorFunction in
\* every state between accessor calls: a value flagged valid is the value at
\* the stored point (f the function value, g / J the gradient / Jacobian, and
\* the callable or finite-difference Hessian of a VectorFunction the one of
\* the stored point and the stored multiplier), and a call that changed the
\* stored point leaves no flag set for a quantity it did not compute anew.
C30_CacheCoherence ==
    /\ phase = "scalar"
         => /\ sf.f_updated => sf.f = UserFun(sf.x)
            /\ sf.g_updated => sf.g = GradAt(sf.x)
    /\ phase = "vector"
         => /\ vf.f_updated => vf.f = UserVFun(vf.x)
            /\ vf.J_updated => vf.J = JacAt(vf.x)
            /\ (vf.H_updated /\ ~isHessianUpdateStrategy(vf._orig_hess))
                 => HessIsFor(Vector_view(vf), vf.v)
    /\ (phase \in {"scalar", "vector"} /\ Called /\ Last.raised = ""
          /\ Last.post.x # Last.pre.x /\ Last.op = "fun"
          /\ ~isHessianUpdateStrategy(EngineHess))
         => ~Last.post.d_updated /\ ~Last.post.H_updated

\* the b of the last nnls call does not fit its two-dimensional A
IncompatibleB ==
    \/ Len(nn.b) > 2
    \/ Len(nn.b) = 2 /\ nn.b[2] # 1
    \/ nn.b[1] # nn.A[1]

\* C25: nnls hands 3 * n to the solver as maxiter when the caller gave none,
\* raises RuntimeError, returning nothing, exactly when the solver reported
\* info = 3, and raises ValueError without calling the solver for an A that is
\* not two-dimensional and for a two-dimensional A with a b that does not fit.
C25_NnlsContract ==
    nn.phase = "done"
        => /\ (nn.called /\ nn.maxiter = NoMaxIter) => nn.used = 3 * nn.A[2]
           /\ (nn.called /\ ~Falsy(nn.maxiter)) => nn.used = nn.maxiter
           /\ nn.exc = "RuntimeError" <=> (nn.called /\ nn.info = 3)
           /\ nn.returned <=> (nn.called /\ nn.info # 3)
           /\ (Len(nn.A) # 2 \/ IncompatibleB)
               => (nn.exc = "ValueError" /\ ~nn.called)

\* nnls called without maxiter on a 3 x 2 array: the solver got maxiter 6,
\* reported info = 3 and nnls raised RuntimeError
C25_Witness ==
    /\ nn.phase = "done" /\ nn.A = <<3, 2>> /\ nn.b = <<3>>
    /\ nn.maxiter = NoMaxIter /\ nn.called /\ nn.used = 6
    /\ nn.info = 3 /\ nn.exc = "RuntimeError" /\ ~nn.returned

\* C21: in fmin_slsqp, when f_eqcons is specified the constraints handed to
\* the solver contain none built from the list eqcons, and when f_ieqcons is
\* specified none built from the list ieqcons
C21_ListsIgnored ==
    sq.phase # "new" =>
        /\ (sq.args.f_eqcons # "" =>
               \A i \in 1..Len(sq.cons.eq), j \in 1..Len(sq.args.eqcons) :
                   sq.cons.eq[i] # sq.args.eqcons[j])
        /\ (sq.args.f_ieqcons # "" =>
               \A i \in 1..Len(sq.cons.ineq), j \in 1..Len(sq.args.ieqcons) :
                   sq.cons.ineq[i] # sq.args.ieqcons[j])

\* C22: the initial wrapped_fun(x) and wrapped_grad(x) of _minimize_slsqp
\* evaluate nothing: nfev, ngev and the calls made on the user's callables
\* and on the finite-difference routine are, at the entry of the loop, what
\* they were right after the construction of the ScalarFunction
C22_InitialCallsAreCacheHits ==
    sq.phase # "new" =>
        /\ sq.at_loop = sq.at_ctor
        /\ sq.at_loop.nfev = sq.at_ctor.nfev
        /\ sq.at_loop.ngev = sq.at_ctor.ngev
\* a run whose initial guess was outside the bounds and was clipped
C22_Witness ==
    /\ sq.phase = "loop"
    /\ sq.passes = 0
    /\ sq.bounds.given
    /\ sq.x = <<4, 2>>
    /\ sq.sf.x = <<4, 2>>
    /\ sq.at_loop.nfev >= 1

\* C23: every point passed to sf.fun or sf.grad in _minimize_slsqp, the
\* points of the loop included, lies within the bounds
C23_OnlyPointsWithinBounds ==
    \A p \in sq.sent : InBounds(p, sq.bounds)

\* C24: with a callback, each return of the solver at which the iteration
\* counter exceeds its value at the previous return is followed by exactly
\* one callback call, on a copy of the current x, the return that ends the
\* loop included; a return at which the counter stood still by none
C24_CallbackOncePerIteration ==
    (sq.callback /\ sq.passes > 0) =>
        /\ (sq.iter > sq.ret_iter =>
               /\ sq.cb_pass = 1
               /\ sq.cb_last.val = sq.x
               /\ ~sq.cb_last.shares)
        /\ (sq.iter <= sq.ret_iter => sq.cb_pass = 0)
\* the loop ended on a return that completed an iteration, after a return
\* that completed one too
C24_Witness ==
    /\ sq.callback
    /\ sq.phase = "done"
    /\ sq.passes = 2
    /\ sq.iter = 2
    /\ sq.cb_calls = 2
    /\ sq.cb_pass = 1

\* the last call was a jac call that returned
JacReturned == Called /\ Last.op = "jac" /\ Last.raised = ""

\* C31: the representation of the Jacobian is fixed at construction: a jac
\* call returns a sparse matrix exactly if sparse_jacobian was resolved to
\* True, and otherwise the representation chosen at construction, whatever
\* the user's jac returns on that call
C31_RepresentationFixed ==
    (phase = "vector" /\ JacReturned) =>
        /\ (Last.post.d_repr = "sparse" <=> vf.sparse_jacobian)
        /\ (~vf.sparse_jacobian => Last.post.d_repr = vf.repr0)

\* what is observable of the engine in use, the best-point tracker included
Observed ==
    IF fd.kind = "scalar" THEN Scalar_observed(sf) ELSE Vector_observed(vf)

\* C32: while the perturbed-point evaluations of a finite-difference gradient
\* or Jacobian run on the workers, in any interleaving, the stored point, the
\* cached values, the flags, the best-point tracker and nfev, ngev / njev and
\* nhev are what they were when the differencing routine was entered; after
\* it has returned they are what a sequential run gives
C32_FanOutIsAtomic ==
    /\ (fd.phase = "running" => Observed = fd.entered)
    /\ (fd.phase = "returned" => Observed = fd.atomic)
\* a Jacobian whose evaluations overlapped has been returned, and one
\* increment of the function wrapper's own counter was lost
C32_Witness ==
    /\ fd.phase = "returned"
    /\ fd.kind = "vector"
    /\ fd.overlapped
    /\ fd.read = <<2, 2>>
    /\ vf.fw_nfev = 3
    /\ vf.J_updated

\* C33: ScalarFunction or VectorFunction with a quasi-Newton Hessian: after
\* construction and after every accessor call that returns normally, the
\* gradient / Jacobian flag and the Hessian flag are both True
C33_DerivativesValidBetweenCalls ==
    ((ScalarQN \/ VectorQN) /\ (Called => Last.raised = ""))
        => (Engine.d_updated /\ Engine.H_updated)

\* C34: ScalarFunction with a quasi-Newton Hessian: no accessor call ends
\* with the TypeError of an update fed from an undefined snapshot, and in
\* every state, those a failed accessor call left behind included, the
\* Hessian flag is False only if x_prev and g_prev have been set
C34_SnapshotBeforeUpdate ==
    ScalarQN =>
        /\ sf.raised # "TypeError"
        /\ (~sf.H_updated => (sf.x_prev # None /\ sf.g_prev # None))
\* a call failed in the gradient after the point had moved, and left the
\* Hessian flag False
C34_Witness ==
    /\ ScalarQN /\ Called
    /\ Last.raised = "UserError"
    /\ ~sf.H_updated /\ ~sf.g_updated
    /\ sf.x_prev = <<4, 2>>
    /\ sf.g_prev = GradAt(<<4, 2>>)
    /\ sf.hus.updates = 0

\* C35 (as claimed): VectorFunction.hess returns the Hessian for the v of
\* the call, also when the caller passes the array it passed as v before,
\* changed in place
C35_HessianForCurrentMultiplier ==
    (phase = "vector" /\ Called /\ Last.op = "hess" /\ Last.raised = "")
        => HessIsFor(Last.post, Last.v)

\* the last call returned normally and the call before it failed
AfterFailure == Len(hist) = 2 /\ hist[1].raised # "" /\ Last.raised = ""

\* C36 (as claimed): ScalarFunction and VectorFunction: an accessor call that
\* returns normally after a failed one returns the value at the point, and
\* for VectorFunction.hess at the multiplier, passed to it; and in the state
\* a failed call leaves, every flag that is True stands for a value computed
\* at the stored point
C36_FailureLeavesNoStaleValue ==
    /\ (phase \in {"scalar", "vector"} /\ AfterFailure) =>
          /\ Last.post.x = Stored(Last.x)
          /\ (Last.op \in {"fun", "fun_and_grad"}
                => Last.post.f = FunAt(Stored(Last.x)))
          /\ (Last.op \in {"grad", "jac", "fun_and_grad"}
                => Last.post.d = DerivAt(Stored(Last.x)))
          /\ ((Last.op = "hess" /\ phase = "vector")
                => HessIsFor(Last.post, Last.v))
          /\ ((Last.op = "hess" /\ phase = "scalar" /\ Last.post.H.tag = "dense")
                => Last.post.H.val = UserHess(Stored(Last.x)))
    /\ (phase \in {"scalar", "vector"} /\ Called /\ Last.raised # "") =>
          /\ (Engine.f_updated => Engine.f = FunAt(Engine.x))
          /\ (Engine.d_updated => Engine.d = DerivAt(Engine.x))
          /\ ((Engine.H_updated /\ phase = "vector")
                => \E w \in Multipliers : HessIsFor(Engine, w))
          /\ ((Engine.H_updated /\ phase = "scalar" /\ Engine.H.tag = "dense")
                => Engine.H.val = UserHess(Engine.x))

\* the best-point tracker of the ScalarFunction
Tracker == <<sf._lowest_x, sf._lowest_f>>

\* C37: ScalarFunction: a step changes the best-point tracker only if it
\* evaluated the function at the stored point (at construction, in fun, or as
\* the base value of a finite-difference gradient) and the value is strictly
\* lower than the tracked one, and the tracker is then that point and value;
\* a cache hit and the perturbed evaluations of a finite-difference gradient
\* leave it as it was
C37_TrackerFollowsPrimaryEvaluations ==
    [][/\ (Tracker' # Tracker =>
              /\ phase' = "scalar"
              /\ sf'.n_fun > sf.n_fun
              /\ sf'.f_updated
              /\ sf'._lowest_f < sf._lowest_f
              /\ Tracker' = <<sf'.x, UserFun(sf'.x)>>)
       /\ ((phase = "scalar" /\ sf'.n_fun = sf.n_fun) => Tracker' = Tracker)]_vars
\* the first call after construction at <<4, 2>>, a finite-difference
\* gradient at <<2, 2>>, has lowered the tracker by its base evaluation
C37_Witness ==
    /\ phase = "scalar" /\ calls = 1
    /\ ~callable(sf._orig_grad)
    /\ Last.op = "grad" /\ Last.d_fun = 1
    /\ sf.fd_nfev > 0
    /\ Tracker = <<(<<2, 2>>), UserFun(<<2, 2>>)>>

\* the exceptions the claim allots to a constraint: to the one that is no
\* dictionary, that has no 'type', whose type is no string, whose type is
\* neither 'eq' nor 'ineq' in any case, and that has no 'fun'
RejectedWith(con) ==
    (IF con.cls # "dict" THEN {"TypeError"} ELSE {})
        \cup (IF con.cls = "dict" /\ con.type = NoKey THEN {"KeyError"} ELSE {})
        \cup (IF con.cls = "dict" /\ con.type.cls \in {"int", "bytes"}
              THEN {"TypeError"} ELSE {})
        \cup (IF con.cls = "dict" /\ con.type.cls = "str"
                  /\ con.type.val \notin {"eq", "EQ", "ineq"}
              THEN {"ValueError"} ELSE {})
        \cup (IF con.cls = "dict" /\ con.fun = "" THEN {"ValueError"} ELSE {})
\* the exceptions allotted to the constraints of the run
RunRejectedWith ==
    UNION {RejectedWith(sq.constraints[i]) : i \in 1..Len(sq.constraints)}

\* C38 (as claimed): _minimize_slsqp called with a malformed constraint ends
\* with an exception the claim allots to one of its constraints, KeyError
\* for no 'type', TypeError for no dictionary or a type that is no string,
\* ValueError for an unknown type or no 'fun', and it ends so before a
\* ScalarFunction exists, before the objective or its gradient is evaluated
\* and before the solver is called
C38_MalformedConstraintsRejected ==
    (sq.phase # "new" /\ RunRejectedWith # {}) =>
        /\ sq.phase = "error"
        /\ sq.raised \in RunRejectedWith
        /\ sq.sf = Scalar_blank
        /\ sq.sent = {} /\ sq.passes = 0

====
